---- MODULE Spec2Model ----
(***************************************************************************)
(* A model of the honga RV64 emulator core: the hart (registers, pc, CSR   *)
(* file, privilege mode), the trap unit (Exception::get_trap and           *)
(* Interrupt::get_trap), the interrupt poll, the Sv39 translator, the bus  *)
(* and RAM, and the fetch / execute / poll loop that drives them.          *)
(*                                                                         *)
(* A u64 is modelled as the set of its set bit positions (a subset of      *)
(* 0..63): TLC's integers are 32 bits wide, and the program depends on     *)
(* bits above 31 (MEMORY_BASE is bit 31, an interrupt cause has bit 63).   *)
(* Bitwise operators are set operators; arithmetic is ripple carry.        *)
(***************************************************************************)
EXTENDS Integers, Sequences, FiniteSets, TLC

\* ------------------------------------------------------------------------
\* u64 words as bit sets
\* ------------------------------------------------------------------------

\* The width of a general register, of pc and of a CSR (u64).
XLEN == 64

BitIdx == 0 .. (XLEN - 1)

\* The u64 with the value n, for a natural n below 2^31.
U(n) == {i \in 0 .. 30 : (n \div (2 ^ i)) % 2 = 1}

\* The natural number a word (below 2^31) stands for.
RECURSIVE Val(_)
Val(w) ==
  IF w = {} THEN 0
  ELSE LET i == CHOOSE j \in w : TRUE IN (2 ^ i) + Val(w \ {i})

\* a & b, a | b, !a, a ^ b
And(a, b) == a \cap b
Or(a, b) == a \cup b
Not(a) == BitIdx \ a
Xor(a, b) == (a \ b) \cup (b \ a)

\* a << n and a >> n on u64, for 0 <= n < 64 (bits shifted out are lost).
Shl(a, n) == {i + n : i \in {j \in a : j + n < XLEN}}
Shr(a, n) == {i - n : i \in {j \in a : j >= n}}

\* u64::wrapping_shr(n): the shift amount is taken modulo 64.
wrapping_shr(a, n) == Shr(a, n % XLEN)
wrapping_shl(a, n) == Shl(a, n % XLEN)

\* (a >> lo) & (2^n - 1) as a natural number: a bit field of at most 31 bits.
Field(a, lo, n) == Val({i - lo : i \in {j \in a : j >= lo /\ j < lo + n}})

\* Bit i of a, as 0 or 1: (a >> i) & 1.
Bit(a, i) == IF i \in a THEN 1 ELSE 0

\* Addition in four 16-bit limbs, the carry passed upward: Limb(a, k) is
\* bits 16k .. 16k+15 of a as a number.
Limb(a, k) == Val({i - 16 * k : i \in {j \in a : j \div 16 = k}})

\* The four limb sums of a + b + c, each with its carry out in bit 16.
AddLimbs(a, b, c) ==
  LET s0 == Limb(a, 0) + Limb(b, 0) + c
      s1 == Limb(a, 1) + Limb(b, 1) + (s0 \div 65536)
      s2 == Limb(a, 2) + Limb(b, 2) + (s1 \div 65536)
      s3 == Limb(a, 3) + Limb(b, 3) + (s2 \div 65536)
  IN  << s0, s1, s2, s3 >>

\* a + b + c modulo 2^64: the carry out of bit 63 is dropped.
AddFrom(a, b, c) ==
  IF b = {} /\ c = 0 THEN a
  ELSE LET s == AddLimbs(a, b, c)
       IN  {i \in BitIdx : (s[(i \div 16) + 1] \div (2 ^ (i % 16))) % 2 = 1}

\* u64::wrapping_add and u64::wrapping_sub.
wrapping_add(a, b) == AddFrom(a, b, 0)
wrapping_sub(a, b) == AddFrom(a, Not(b), 1)

\* The carry out of bit 63 of a + b: the addition overflows u64.
CarryOut(a, b) == AddLimbs(a, b, 0)[4] \div 65536

AddOverflows(a, b) == CarryOut(a, b) = 1

\* a < b as unsigned 64-bit numbers: the highest differing bit is set in b.
Ult(a, b) ==
  LET d == Xor(a, b)
  IN  d # {} /\ (CHOOSE i \in d : \A j \in d : j <= i) \in b

\* a < b as signed 64-bit numbers (as i64).
Slt(a, b) ==
  IF ((XLEN - 1) \in a) # ((XLEN - 1) \in b) THEN (XLEN - 1) \in a ELSE Ult(a, b)

\* Sign extension of the low n bits of a to 64 bits (as iN as i64 as u64).
SignExtend(a, n) ==
  {i \in a : i < n} \cup (IF (n - 1) \in a THEN (n - 1) .. (XLEN - 1) ELSE {})

\* Zero extension of the low n bits (as uN as u64).
Truncate(a, n) == {i \in a : i < n}

\* ------------------------------------------------------------------------
\* Constants of the program
\* ------------------------------------------------------------------------

\* enum Mode (repr u8).
User == 0
Supervisor == 1
Machine == 3

Modes == {User, Supervisor, Machine}

\* CSR addresses (crate::csr): the standard RISC-V numbers.
SSTATUS == 256
SIE == 260
SIP == 324
STVEC == 261
SEPC == 321
SCAUSE == 322
STVAL == 323
SATP == 384
MSTATUS == 768
MEDELEG == 770
MIDELEG == 771
MIE == 772
MTVEC == 773
MEPC == 833
MCAUSE == 834
MTVAL == 835
MIP == 836

\* MIP fields: 1 << n.
MIP_SSIP == Shl(U(1), 1)
MIP_MSIP == Shl(U(1), 3)
MIP_STIP == Shl(U(1), 5)
MIP_MTIP == Shl(U(1), 7)
MIP_SEIP == Shl(U(1), 9)
MIP_MEIP == Shl(U(1), 11)

\* The page size (4 KiB) is 2^12: x * PAGE_SIZE is x << PAGE_SHIFT.
PAGE_SHIFT == 12

\* enum Exception (repr u64) declares no discriminants: a variant's value is
\* its position in the declaration, counted from 0.
ExceptionVariants ==
  << "InstructionAddressMisaligned", "InstructionAccessFault",
     "IllegalInstruction", "Breakpoint", "LoadAddressMisaligned",
     "LoadAccessFault", "StoreAMOAddressMisaligned", "StoreAMOAccessFault",
     "EnvironmentCallFromUMode", "EnvironmentCallFromSMode",
     "EnvironmentCallFromMMode", "InstructionPageFault", "LoadPageFault",
     "StoreAMOPageFault" >>

\* `*self as u64` of an Exception.
ExceptionCode(e) ==
  (CHOOSE i \in DOMAIN ExceptionVariants : ExceptionVariants[i] = e) - 1

\* enum Interrupt (repr u64) with its explicit discriminants.
InterruptCodes ==
  [ UserSoftwareInterrupt |-> 0, SupervisorSoftwareInterrupt |-> 1,
    MachineSoftwareInterrupt |-> 3, UserTimerInterrupt |-> 4,
    SupervisorTimerInterrupt |-> 5, MachineTimerInterrupt |-> 7,
    UserExternalInterrupt |-> 8, SupervisorExternalInterrupt |-> 9,
    MachineExternalInterrupt |-> 11 ]

\* `*self as u64` of an Interrupt.
InterruptCode(i) == InterruptCodes[i]

\* is_fatal with IllegalInstruction among the fatal ones.
is_fatal_illegal(e) ==
  e \in { "InstructionAddressMisaligned", "InstructionAccessFault",
          "IllegalInstruction", "LoadAccessFault",
          "StoreAMOAddressMisaligned", "StoreAMOAccessFault" }

\* Exception::is_fatal.
is_fatal(e) ==
  e \in { "InstructionAddressMisaligned", "InstructionAccessFault",
          "LoadAccessFault", "StoreAMOAddressMisaligned",
          "StoreAMOAccessFault" }

\* Bus windows and device registers: RAM (bus/memory.rs), the UART
\* (bus/uart.rs); the CLINT, PLIC and VirtIO windows are the ones of the
\* address map.
MEMORY_BASE == Shl(U(1), 31)
MEMORY_SIZE == Shl(U(128), 20)
UART_BASE == Shl(U(1), 28)
UART_SIZE == U(256)
UART_RHR == UART_BASE
UART_THR == UART_BASE
UART_LSR == wrapping_add(UART_BASE, U(5))
UART_LSR_RX == 1
UART_LSR_TX == 32
UART_IRQ == 10
VIRTIO_IRQ == 1
CLINT_BASE == Shl(U(1), 25)
CLINT_SIZE == Shl(U(1), 16)
PLIC_BASE == Shl(U(3), 26)
PLIC_SIZE == Shl(U(1), 26)
VIRTIO_BASE == Or(Shl(U(1), 28), Shl(U(1), 12))
VIRTIO_SIZE == Shl(U(1), 12)

\* base + size of each device window, as the bus compares against it.
CLINT_END == wrapping_add(CLINT_BASE, CLINT_SIZE)
PLIC_END == wrapping_add(PLIC_BASE, PLIC_SIZE)
UART_END == wrapping_add(UART_BASE, UART_SIZE)
VIRTIO_END == wrapping_add(VIRTIO_BASE, VIRTIO_SIZE)
\* PLIC_SCLAIM is PLIC_BASE + 0x201004.
PLIC_SCLAIM == Or(PLIC_BASE, U(2101252))

\* ------------------------------------------------------------------------
\* Zero-initialised arrays (the CSR file, RAM, the UART registers) are kept
\* sparse: a function on the indices that hold a non-zero value.
\* ------------------------------------------------------------------------

Get(f, k, zero) == IF k \in DOMAIN f THEN f[k] ELSE zero

Put(f, k, v, zero) ==
  IF v = zero THEN [x \in DOMAIN f \ {k} |-> f[x]]
  ELSE [x \in DOMAIN f \cup {k} |-> IF x = k THEN v ELSE f[x]]

Empty == [x \in {} |-> {}]

\* ------------------------------------------------------------------------
\* The CSR file (Cpu::load_csr, Cpu::store_csr). A Cpu value c is a record
\* with the fields of struct Cpu.
\* ------------------------------------------------------------------------

Csr(c, address) == Get(c.csr, address, {})

load_csr(c, address) ==
  IF address = SIE THEN And(Csr(c, MIE), Csr(c, MIDELEG))
  ELSE Csr(c, address)

\* The slot written for every address, sie among them.
store_csr_slot(c, address, value) ==
  [c EXCEPT !.csr = Put(@, address, value, {})]

store_csr(c, address, value) ==
  IF address = SIE
  THEN [c EXCEPT !.csr =
          Put(@, MIE, Or(And(Csr(c, MIE), Not(Csr(c, MIDELEG))),
                         And(value, Csr(c, MIDELEG))), {})]
  ELSE [c EXCEPT !.csr = Put(@, address, value, {})]

\* ------------------------------------------------------------------------
\* Exception::get_trap
\* ------------------------------------------------------------------------

\* The delegation test without the test of the previous mode.
ExceptionDelegatedFromAnyMode(c, cause) ==
  Bit(wrapping_shr(load_csr(c, MEDELEG), Val(Truncate(cause, 31))), 0) # 0

\* The delegation test: previous_mode <= Supervisor and bit `cause as u32`
\* of medeleg (the shift amount taken modulo 64 by wrapping_shr).
ExceptionDelegated(c, cause) ==
  /\ c.mode <= Supervisor
  /\ Bit(wrapping_shr(load_csr(c, MEDELEG), Val(Truncate(cause, 31))), 0) # 0

\* csr | (1 << b), csr & !mask, and bit `to` set to the value of bit `from`
\* (the if / else pairs on the status registers).
SetBit(c, address, b) ==
  store_csr(c, address, Or(load_csr(c, address), Shl(U(1), b)))

ClearBits(c, address, mask) ==
  store_csr(c, address, And(load_csr(c, address), Not(mask)))

CopyBit(c, address, from, to) ==
  IF Bit(load_csr(c, address), from) = 1 THEN SetBit(c, address, to)
  ELSE ClearBits(c, address, Shl(U(1), to))

\* sstatus.SPP: 0 if the previous mode is User, 1 otherwise.
SetSpp(c, previous_mode) ==
  IF previous_mode = User THEN ClearBits(c, SSTATUS, Shl(U(1), 8))
  ELSE SetBit(c, SSTATUS, 8)

\* "Handle the trap in S mode": mode, pc, sepc, scause, stval, then SPIE from
\* SIE, SIE cleared, SPP set, in this order.
ExceptionTrapS(c, cause, exception_pc, previous_mode) ==
  SetSpp(
    ClearBits(
      CopyBit(
        store_csr(
          store_csr(
            store_csr(
              [c EXCEPT !.mode = Supervisor,
                        !.pc = And(load_csr(c, STVEC), Not(U(1)))],
              SEPC, And(exception_pc, Not(U(1)))),
            SCAUSE, cause),
          STVAL, U(0)),
        SSTATUS, 1, 5),
      SSTATUS, Shl(U(1), 1)),
    previous_mode)

\* The trap in M mode without the clearing of MIE.
ExceptionTrapMKeepsMie(c, cause, exception_pc) ==
  ClearBits(
    CopyBit(
      store_csr(
        store_csr(
          store_csr(
            [c EXCEPT !.mode = Machine,
                      !.pc = And(load_csr(c, MTVEC), Not(U(1)))],
            MEPC, And(exception_pc, Not(U(1)))),
          MCAUSE, cause),
        MTVAL, U(0)),
      MSTATUS, 3, 7),
    MSTATUS, Shl(U(3), 11))

\* "Handle the trap in M mode": mode, pc, mepc, mcause, mtval, then MPIE from
\* MIE, MIE cleared, MPP cleared to 0.
ExceptionTrapM(c, cause, exception_pc) ==
  ClearBits(
    ClearBits(
      CopyBit(
        store_csr(
          store_csr(
            store_csr(
              [c EXCEPT !.mode = Machine,
                        !.pc = And(load_csr(c, MTVEC), Not(U(1)))],
              MEPC, And(exception_pc, Not(U(1)))),
            MCAUSE, cause),
          MTVAL, U(0)),
        MSTATUS, 3, 7),
      MSTATUS, Shl(U(1), 3)),
    MSTATUS, Shl(U(3), 11))

\* exception_pc is pc - 4, previous_mode the mode, cause `*self as u64`.
Exception_get_trap(self, c) ==
  IF ExceptionDelegated(c, U(ExceptionCode(self)))
  THEN ExceptionTrapS(c, U(ExceptionCode(self)), wrapping_sub(c.pc, U(4)), c.mode)
  ELSE ExceptionTrapM(c, U(ExceptionCode(self)), wrapping_sub(c.pc, U(4)))

\* ------------------------------------------------------------------------
\* Interrupt::get_trap
\* ------------------------------------------------------------------------

\* "Set the interrupt bit."
InterruptCause(self) == Or(U(InterruptCode(self)), Shl(U(1), 63))

\* The delegation test of an interrupt, as the source writes it: on medeleg,
\* with `cause as u32` (the low bits of the cause) as the shift amount.
InterruptDelegated(c, cause) ==
  /\ c.mode <= Supervisor
  /\ Bit(wrapping_shr(load_csr(c, MEDELEG), Val(Truncate(cause, 31))), 0) # 0

\* `4 * cause` when the low bit of tvec is 1 (vectored mode), else 0; the
\* product as a release build computes it (modulo 2^64).
InterruptVector(tvec, cause) ==
  IF Bit(tvec, 0) = 1 THEN Shl(cause, 2) ELSE U(0)

\* `4 * cause` or `(tvec & !1) + vector` exceeds u64: a debug build panics
\* on it ("attempt to multiply/add with overflow").
InterruptVectorOverflows(tvec, cause) ==
  /\ Bit(tvec, 0) = 1
  /\ \/ And(cause, Shl(U(3), 62)) # {}
     \/ AddOverflows(And(tvec, Not(U(1))), Shl(cause, 2))

\* (tvec & !1) + vector
VectoredPc(tvec, cause) ==
  wrapping_add(And(tvec, Not(U(1))), InterruptVector(tvec, cause))

InterruptTrapS(c, cause, exception_pc, previous_mode) ==
  SetSpp(
    ClearBits(
      CopyBit(
        store_csr(
          store_csr(
            store_csr(
              [c EXCEPT !.mode = Supervisor,
                        !.pc = VectoredPc(load_csr(c, STVEC), cause)],
              SEPC, And(exception_pc, Not(U(1)))),
            SCAUSE, cause),
          STVAL, U(0)),
        SSTATUS, 1, 5),
      SSTATUS, Shl(U(1), 1)),
    previous_mode)

InterruptTrapM(c, cause, exception_pc) ==
  ClearBits(
    ClearBits(
      CopyBit(
        store_csr(
          store_csr(
            store_csr(
              [c EXCEPT !.mode = Machine,
                        !.pc = VectoredPc(load_csr(c, MTVEC), cause)],
              MEPC, And(exception_pc, Not(U(1)))),
            MCAUSE, cause),
          MTVAL, U(0)),
        MSTATUS, 3, 7),
      MSTATUS, Shl(U(1), 3)),
    MSTATUS, Shl(U(3), 11))

Interrupt_get_trap(self, c) ==
  IF InterruptDelegated(c, InterruptCause(self))
  THEN InterruptTrapS(c, InterruptCause(self), wrapping_sub(c.pc, U(4)), c.mode)
  ELSE InterruptTrapM(c, InterruptCause(self), wrapping_sub(c.pc, U(4)))

\* Interrupt::get_trap panics in a debug build.
Interrupt_get_trap_panics(self, c) ==
  IF InterruptDelegated(c, InterruptCause(self))
  THEN InterruptVectorOverflows(load_csr(c, STVEC), InterruptCause(self))
  ELSE InterruptVectorOverflows(load_csr(c, MTVEC), InterruptCause(self))

\* ------------------------------------------------------------------------
\* Results: Result<T, Exception>, and a panic of the process.
\* ------------------------------------------------------------------------

Ok(v) == [tag |-> "Ok", value |-> v]
Err(e) == [tag |-> "Err", err |-> e]
Panic == [tag |-> "Panic"]

\* a <= b as unsigned numbers.
Ule(a, b) == ~Ult(b, a)

\* base <= addr && addr < end, for end = base + size
InWindow(addr, base, end) == Ule(base, addr) /\ Ult(addr, end)

\* ------------------------------------------------------------------------
\* RAM (bus/memory.rs): Memory(pub Vec<u8>), bytes as numbers 0..255, the
\* vector kept sparse.
\* ------------------------------------------------------------------------

\* self.0[index + n - 1] is inside the vector, and with it the bytes below.
InBounds(index, n) == Ult(wrapping_add(index, U(n - 1)), MEMORY_SIZE)

\* (address - MEMORY_BASE) as usize
Index(address) == wrapping_sub(address, MEMORY_BASE)

\* load_8bits .. load_64bits: n bytes from index i, little-endian.
RECURSIVE LoadBytes(_, _, _)
LoadBytes(m, i, n) ==
  IF n = 0 THEN {}
  ELSE Or(LoadBytes(m, i, n - 1), Shl(U(Get(m, i + n - 1, 0)), 8 * (n - 1)))

\* store_8bits .. store_64bits: byte k is (value >> 8k) & 0xff.
RECURSIVE StoreBytes(_, _, _, _)
StoreBytes(m, i, n, value) ==
  IF n = 0 THEN m
  ELSE Put(StoreBytes(m, i, n - 1, value), i + n - 1,
           Field(value, 8 * (n - 1), 8), 0)

\* The load with the index rounded down to a multiple of the width.
Memory_load_aligned(m, address, size) ==
  IF size \in {8, 16, 32, 64}
  THEN IF InBounds(Index(address), size \div 8)
       THEN Ok(LoadBytes(m, (Val(Index(address)) \div (size \div 8)) * (size \div 8),
                         size \div 8))
       ELSE Panic
  ELSE Err("LoadAddressMisaligned")

Memory_load(m, address, size) ==
  IF size \in {8, 16, 32, 64}
  THEN IF InBounds(Index(address), size \div 8)
       THEN Ok(LoadBytes(m, Val(Index(address)), size \div 8))
       ELSE Panic
  ELSE Err("LoadAddressMisaligned")

\* The result's value is the memory after the store.
Memory_store(m, address, size, value) ==
  IF size \in {8, 16, 32, 64}
  THEN IF InBounds(Index(address), size \div 8)
       THEN Ok(StoreBytes(m, Val(Index(address)), size \div 8, value))
       ELSE Panic
  ELSE Err("LoadAddressMisaligned")

\* ------------------------------------------------------------------------
\* UART (bus/uart.rs), as the CPU thread uses it. u.uart is the register
\* array behind the mutex, u.interrupt the AtomicBool.
\* ------------------------------------------------------------------------

UartOffset(addr) == Val(wrapping_sub(addr, UART_BASE))

\* x & !UART_LSR_RX and x | UART_LSR_RX on a register byte.
ClearRx(x) == Val(And(U(x), Not(U(UART_LSR_RX))))
SetRx(x) == Val(Or(U(x), U(UART_LSR_RX)))

\* The result's value is <<the uart after the load, the value loaded>>: a
\* load of RHR clears LSR.RX.
Uart_load(u, addr, size) ==
  IF size = 8
  THEN IF addr = UART_RHR
       THEN Ok(<< [u EXCEPT !.uart =
                     Put(@, UartOffset(UART_LSR),
                         ClearRx(Get(u.uart, UartOffset(UART_LSR), 0)), 0)],
                  U(Get(u.uart, UartOffset(UART_RHR), 0)) >>)
       ELSE Ok(<< u, U(Get(u.uart, UartOffset(addr), 0)) >>)
  ELSE Err("LoadAccessFault")

\* A store to THR prints the byte; any other offset is written.
Uart_store(u, addr, size, value) ==
  IF size = 8
  THEN IF addr = UART_THR
       THEN Ok(u)
       ELSE Ok([u EXCEPT !.uart = Put(@, UartOffset(addr), Field(value, 0, 8), 0)])
  ELSE Err("StoreAMOAccessFault")

\* Uart::is_interrupting: swap(false), the old value returned.
Uart_is_interrupting(u) == u.interrupt
Uart_after_is_interrupting(u) == [u EXCEPT !.interrupt = FALSE]

\* ------------------------------------------------------------------------
\* CLINT, PLIC and VirtIO. Their register files are kept sparse, keyed by
\* the offset in the window; only the registers the address map names are
\* kept. VirtIO's 512-byte transfers are counted, not carried out.
\* ------------------------------------------------------------------------

\* mtimecmp (0x4000), mtime (0xbff8) and msip (0): 64-bit registers.
ClintRegs == {U(0), U(16384), U(49144)}

Clint_load(cl, addr, size) ==
  IF size = 64 THEN Ok(Get(cl, wrapping_sub(addr, CLINT_BASE), {}))
  ELSE Err("LoadAccessFault")

Clint_store(cl, addr, size, value) ==
  IF size = 64
  THEN IF wrapping_sub(addr, CLINT_BASE) \in ClintRegs
       THEN Ok(Put(cl, wrapping_sub(addr, CLINT_BASE), value, {}))
       ELSE Ok(cl)
  ELSE Err("StoreAMOAccessFault")

\* pending (0x1000), senable (0x2080), spriority (0x201000), sclaim
\* (0x201004): 32-bit registers.
PlicRegs == {U(4096), U(8320), U(2101248), U(2101252)}

Plic_load(pl, addr, size) ==
  IF size = 32 THEN Ok(Get(pl, wrapping_sub(addr, PLIC_BASE), {}))
  ELSE Err("LoadAccessFault")

Plic_store(pl, addr, size, value) ==
  IF size = 32
  THEN IF wrapping_sub(addr, PLIC_BASE) \in PlicRegs
       THEN Ok(Put(pl, wrapping_sub(addr, PLIC_BASE), Truncate(value, 32), {}))
       ELSE Ok(pl)
  ELSE Err("StoreAMOAccessFault")

\* The sclaim register of the PLIC.
Sclaim(bus) == Get(bus.plic, wrapping_sub(PLIC_SCLAIM, PLIC_BASE), {})

\* queue-notify is at offset 0x050 of the VirtIO window.
VIRTIO_QUEUE_NOTIFY == U(80)

Virtio_load(v, addr, size) ==
  IF size = 32 THEN Ok(Get(v.regs, wrapping_sub(addr, VIRTIO_BASE), {}))
  ELSE Err("LoadAccessFault")

\* "A write to queue-notify latches an interrupt-pending flag."
Virtio_store(v, addr, size, value) ==
  IF size = 32
  THEN IF wrapping_sub(addr, VIRTIO_BASE) = VIRTIO_QUEUE_NOTIFY
       THEN Ok([v EXCEPT !.interrupt = TRUE])
       ELSE Ok([v EXCEPT !.regs =
                  Put(@, wrapping_sub(addr, VIRTIO_BASE), Truncate(value, 32), {})])
  ELSE Err("StoreAMOAccessFault")

\* Virtio::is_interrupting consumes and returns the flag.
Virtio_is_interrupting(v) == v.interrupt
Virtio_after_is_interrupting(v) == [v EXCEPT !.interrupt = FALSE]

\* Virtio::disk_access(cpu): one more transfer is done; claim_seen is the
\* PLIC's sclaim as the transfer finds it on the bus.
Virtio_disk_access(c) ==
  [c EXCEPT !.bus.virtio.accesses = @ + 1,
            !.bus.virtio.claim_seen = Sclaim(c.bus)]

\* ------------------------------------------------------------------------
\* The bus (bus/mod.rs). A load's value is <<the bus after it, the value>>
\* (a load of the UART's RHR changes the UART); a store's is the bus after it.
\* ------------------------------------------------------------------------

\* What a device's load result r becomes: the bus is as it was.
Loaded(bus, r) == IF r.tag = "Ok" THEN Ok(<< bus, r.value >>) ELSE r

\* The same for the UART, whose load returns the UART after it as well.
UartLoaded(bus, r) ==
  IF r.tag = "Ok" THEN Ok(<< [bus EXCEPT !.uart = r.value[1]], r.value[2] >>)
  ELSE r

Bus_load(bus, addr, size) ==
  IF InWindow(addr, CLINT_BASE, CLINT_END)
  THEN Loaded(bus, Clint_load(bus.clint, addr, size))
  ELSE IF InWindow(addr, PLIC_BASE, PLIC_END)
  THEN Loaded(bus, Plic_load(bus.plic, addr, size))
  ELSE IF InWindow(addr, UART_BASE, UART_END)
  THEN UartLoaded(bus, Uart_load(bus.uart, addr, size))
  ELSE IF InWindow(addr, VIRTIO_BASE, VIRTIO_END)
  THEN Loaded(bus, Virtio_load(bus.virtio, addr, size))
  ELSE IF Ule(MEMORY_BASE, addr)
  THEN Loaded(bus, Memory_load(bus.memory, addr, size))
  ELSE Err("LoadAccessFault")

\* What a device's store result r becomes: the bus with the device after it.
Stored(bus, device, r) ==
  IF r.tag = "Ok" THEN Ok([bus EXCEPT ![device] = r.value]) ELSE r

Bus_store(bus, addr, size, value) ==
  IF InWindow(addr, CLINT_BASE, CLINT_END)
  THEN Stored(bus, "clint", Clint_store(bus.clint, addr, size, value))
  ELSE IF InWindow(addr, PLIC_BASE, PLIC_END)
  THEN Stored(bus, "plic", Plic_store(bus.plic, addr, size, value))
  ELSE IF InWindow(addr, UART_BASE, UART_END)
  THEN Stored(bus, "uart", Uart_store(bus.uart, addr, size, value))
  ELSE IF InWindow(addr, VIRTIO_BASE, VIRTIO_END)
  THEN Stored(bus, "virtio", Virtio_store(bus.virtio, addr, size, value))
  ELSE IF Ule(MEMORY_BASE, addr)
  THEN Stored(bus, "memory", Memory_store(bus.memory, addr, size, value))
  ELSE Err("StoreAMOAccessFault")

\* ------------------------------------------------------------------------
\* Cpu::check_pending_interrupt
\* ------------------------------------------------------------------------

\* The early return without the Supervisor arm.
InterruptsMaskedInMachineOnly(c) ==
  IF c.mode = Machine THEN Bit(load_csr(c, MSTATUS), 3) = 0 ELSE FALSE

\* The early return: Machine with mstatus.MIE = 0, Supervisor with
\* sstatus.SIE = 0; any other mode falls through.
InterruptsMasked(c) ==
  IF c.mode = Machine THEN Bit(load_csr(c, MSTATUS), 3) = 0
  ELSE IF c.mode = Supervisor THEN Bit(load_csr(c, SSTATUS), 1) = 0
  ELSE FALSE

\* The two devices asked in the other order, VirtIO before the UART.
ExternalIrqVirtioFirst(c) ==
  IF Virtio_is_interrupting(c.bus.virtio) THEN VIRTIO_IRQ
  ELSE IF Uart_is_interrupting(c.bus.uart) THEN UART_IRQ
  ELSE 0

\* "Check external interrupt for uart": the irq chosen, 0 for none.
ExternalIrq(c) ==
  IF Uart_is_interrupting(c.bus.uart) THEN UART_IRQ
  ELSE IF Virtio_is_interrupting(c.bus.virtio) THEN VIRTIO_IRQ
  ELSE 0

\* The device flags swapped to false (VirtIO's only when the UART's was
\* down) and, for a VirtIO irq, disk_access.
FlagsTaken(c, irq) ==
  IF irq = UART_IRQ THEN [c EXCEPT !.bus.uart = Uart_after_is_interrupting(@)]
  ELSE IF irq = VIRTIO_IRQ
  THEN Virtio_disk_access(
         [c EXCEPT !.bus.uart = Uart_after_is_interrupting(@),
                   !.bus.virtio = Virtio_after_is_interrupting(@)])
  ELSE [c EXCEPT !.bus.uart = Uart_after_is_interrupting(@),
                 !.bus.virtio = Virtio_after_is_interrupting(@)]

\* The irq written to PLIC_SCLAIM (a store that cannot fail: size 32, to the
\* PLIC) and mip.SEIP set.
StoreSclaim(c, irq) ==
  [c EXCEPT !.bus = Bus_store(@, PLIC_SCLAIM, 32, U(irq)).value]

SetSeip(c) == store_csr(c, MIP, Or(load_csr(c, MIP), MIP_SEIP))

Claimed(c, irq) == IF irq # 0 THEN SetSeip(StoreSclaim(c, irq)) ELSE c

ExternalInterrupt(c) == Claimed(FlagsTaken(c, ExternalIrq(c)), ExternalIrq(c))

\* The order in which pending interrupts are tested.
PendingOrder ==
  << << MIP_MEIP, "MachineExternalInterrupt" >>,
     << MIP_MSIP, "MachineSoftwareInterrupt" >>,
     << MIP_MTIP, "MachineTimerInterrupt" >>,
     << MIP_SEIP, "SupervisorExternalInterrupt" >>,
     << MIP_SSIP, "SupervisorSoftwareInterrupt" >>,
     << MIP_STIP, "SupervisorTimerInterrupt" >> >>

\* pending = mie & mip; the first entry of the order whose bit is pending is
\* cleared in mip and returned: << the cpu after it, the interrupt or "None" >>.
RECURSIVE TakePendingFrom(_, _, _)
TakePendingFrom(c, pending, k) ==
  IF k > Len(PendingOrder) THEN << c, "None" >>
  ELSE IF And(pending, PendingOrder[k][1]) # {}
  THEN << store_csr(c, MIP, And(load_csr(c, MIP), Not(PendingOrder[k][1]))),
          PendingOrder[k][2] >>
  ELSE TakePendingFrom(c, pending, k + 1)

\* The selection on mip alone, mie left out.
TakePendingNotEnabled(c) == TakePendingFrom(c, load_csr(c, MIP), 1)

TakePending(c) == TakePendingFrom(c, And(load_csr(c, MIE), load_csr(c, MIP)), 1)

check_pending_interrupt(c) ==
  IF InterruptsMasked(c) THEN << c, "None" >>
  ELSE TakePending(ExternalInterrupt(c))

\* ------------------------------------------------------------------------
\* Cpu::update_paging and Cpu::translate (Sv39)
\* ------------------------------------------------------------------------

\* The low n bits set: (1 << n) - 1.
Mask(n) == 0 .. (n - 1)

update_paging(c, csr_addr) ==
  IF csr_addr # SATP THEN c
  ELSE [c EXCEPT
          !.page_table = Shl(And(load_csr(c, SATP), Mask(44)), PAGE_SHIFT),
          !.enable_paging = (Field(load_csr(c, SATP), 60, 4) = 8)]

PageFault(access_type) ==
  IF access_type = "Instruction" THEN Err("InstructionPageFault")
  ELSE IF access_type = "Load" THEN Err("LoadPageFault")
  ELSE Err("StoreAMOPageFault")

\* vpn[i] of the address, i in 0..2.
Vpn(addr, i) == And(Shr(addr, 12 + 9 * i), Mask(9))

\* The leaf's whole ppn at every level, nothing taken from the address.
LeafFullPpn(pte, i, addr, access_type) ==
  IF i \in {0, 1, 2}
  THEN Ok(Or(Shl(And(Shr(pte, 10), Mask(44)), 12), And(addr, Mask(12))))
  ELSE PageFault(access_type)

\* "A leaf PTE has been found" at level i.
Leaf(pte, i, addr, access_type) ==
  LET ppn1 == And(Shr(pte, 19), Mask(9))
      ppn2 == And(Shr(pte, 28), Mask(26))
      offset == And(addr, Mask(12))
  IN  IF i = 0
      THEN Ok(Or(Shl(And(Shr(pte, 10), Mask(44)), 12), offset))
      ELSE IF i = 1
      THEN Ok(Or(Or(Shl(ppn2, 30), Shl(ppn1, 21)),
                 Or(Shl(Vpn(addr, 0), 12), offset)))
      ELSE IF i = 2
      THEN Ok(Or(Or(Shl(ppn2, 30), Shl(Vpn(addr, 1), 21)),
                 Or(Shl(Vpn(addr, 0), 12), offset)))
      ELSE PageFault(access_type)

\* The loop of the walk, entered with the table at a and the level i; r is
\* the result of loading the PTE, whose flags V, R, W, X are bits 0 .. 3.
RECURSIVE Walk(_, _, _, _, _)
\* The step of the walk without the test of R = 0 and W = 1.
WalkedWriteOnly(c, i, addr, access_type, r) ==
  IF r.tag # "Ok" THEN r
  ELSE IF Bit(r.value[2], 0) = 0
  THEN PageFault(access_type)
  ELSE IF Bit(r.value[2], 1) = 1 \/ Bit(r.value[2], 3) = 1
  THEN Leaf(r.value[2], i, addr, access_type)
  ELSE IF i - 1 < 0 THEN PageFault(access_type)
  ELSE Walk(c, Shl(And(Shr(r.value[2], 10), Mask(44)), PAGE_SHIFT), i - 1,
            addr, access_type)

Walked(c, i, addr, access_type, r) ==
  IF r.tag # "Ok" THEN r
  ELSE IF Bit(r.value[2], 0) = 0 \/ (Bit(r.value[2], 1) = 0 /\ Bit(r.value[2], 2) = 1)
  THEN PageFault(access_type)
  ELSE IF Bit(r.value[2], 1) = 1 \/ Bit(r.value[2], 3) = 1
  THEN Leaf(r.value[2], i, addr, access_type)
  ELSE IF i - 1 < 0 THEN PageFault(access_type)
  ELSE Walk(c, Shl(And(Shr(r.value[2], 10), Mask(44)), PAGE_SHIFT), i - 1,
            addr, access_type)

Walk(c, a, i, addr, access_type) ==
  Walked(c, i, addr, access_type,
         Bus_load(c.bus, wrapping_add(a, Shl(Vpn(addr, i), 3)), 64))

translate(c, addr, access_type) ==
  IF ~c.enable_paging THEN Ok(addr)
  ELSE Walk(c, c.page_table, 2, addr, access_type)

\* ------------------------------------------------------------------------
\* Cpu::load, Cpu::store, Cpu::fetch. A result carries the cpu after the call.
\* ------------------------------------------------------------------------

Done(c) == [tag |-> "Ok", cpu |-> c]
Value(c, v) == [tag |-> "Ok", cpu |-> c, value |-> v]
Raise(c, e) == [tag |-> "Err", cpu |-> c, err |-> e]
Abort(c) == [tag |-> "Panic", cpu |-> c]

\* What `?` passes on of a failed call r made with the cpu c.
Failed(c, r) == IF r.tag = "Err" THEN Raise(c, r.err) ELSE Abort(c)

\* bus.load / bus.store has returned r.
LoadDone(c, r) ==
  IF r.tag # "Ok" THEN Failed(c, r)
  ELSE Value([c EXCEPT !.bus = r.value[1]], r.value[2])

StoreDone(c, r) ==
  IF r.tag # "Ok" THEN Failed(c, r) ELSE Done([c EXCEPT !.bus = r.value])

\* translate has returned t.
LoadAt(c, t, size) ==
  IF t.tag # "Ok" THEN Failed(c, t)
  ELSE LoadDone(c, Bus_load(c.bus, t.value, size))

StoreAt(c, t, size, value) ==
  IF t.tag # "Ok" THEN Failed(c, t)
  ELSE StoreDone(c, Bus_store(c.bus, t.value, size, value))

Cpu_load(c, addr, size) == LoadAt(c, translate(c, addr, "Load"), size)

Cpu_store(c, addr, size, value) ==
  StoreAt(c, translate(c, addr, "Store"), size, value)

\* A failed translation passes on its own exception; a failed load of the
\* instruction becomes InstructionAccessFault.
Fetched(c, r) ==
  IF r.tag = "Err" THEN Raise(c, "InstructionAccessFault")
  ELSE IF r.tag = "Panic" THEN Abort(c)
  ELSE Value([c EXCEPT !.bus = r.value[1]], Truncate(r.value[2], 32))

FetchAt(c, t) ==
  IF t.tag # "Ok" THEN Failed(c, t) ELSE Fetched(c, Bus_load(c.bus, t.value, 32))

fetch(c) == FetchAt(c, translate(c, c.pc, "Instruction"))

\* ------------------------------------------------------------------------
\* Arithmetic of the interpreter
\* ------------------------------------------------------------------------

\* (a as i64) >> n, the sign bit shifted in.
Sar(a, n) ==
  Shr(a, n) \cup (IF (XLEN - 1) \in a THEN (XLEN - n) .. (XLEN - 1) ELSE {})

\* The sum of a << i over the set bits i of b in lo..hi, halving the range.
RECURSIVE MulBits(_, _, _, _)
MulBits(a, b, lo, hi) ==
  IF lo = hi THEN (IF lo \in b THEN Shl(a, lo) ELSE {})
  ELSE LET mid == (lo + hi) \div 2
       IN  wrapping_add(MulBits(a, b, lo, mid), MulBits(a, b, mid + 1, hi))

\* u64::wrapping_mul
wrapping_mul(a, b) == MulBits(a, b, 0, XLEN - 1)

\* One step of long division of a by b # 0 at bit i, entered with
\* << quotient, remainder >> of the bits above i.
DivStep(a, b, i, qr) ==
  LET r2 == Or(Shl(qr[2], 1), U(Bit(a, i)))
  IN  IF (XLEN - 1) \in qr[2] \/ Ule(b, r2)
      THEN << qr[1] \cup {i}, wrapping_sub(r2, b) >>
      ELSE << qr[1], r2 >>

\* The steps for bits hi down to lo, halving the range: the upper half is
\* worked out first, then the lower half continues from its result.
RECURSIVE DivFrom(_, _, _, _, _)
DivFrom(a, b, hi, lo, qr) ==
  IF hi = lo THEN DivStep(a, b, hi, qr)
  ELSE LET mid == (hi + lo + 1) \div 2
           upper == DivFrom(a, b, hi, mid, qr)
       IN  IF Len(upper) = 2 THEN DivFrom(a, b, mid - 1, lo, upper) ELSE upper

\* u64::wrapping_div and u64::wrapping_rem for b # 0.
wrapping_div(a, b) == DivFrom(a, b, XLEN - 1, 0, << {}, {} >>)[1]
wrapping_rem(a, b) == DivFrom(a, b, XLEN - 1, 0, << {}, {} >>)[2]

\* ------------------------------------------------------------------------
\* Instruction fields and immediates (Cpu::decode_execute)
\* ------------------------------------------------------------------------

Opcode(inst) == Field(inst, 0, 7)
Rd(inst) == Field(inst, 7, 5)
Rs1(inst) == Field(inst, 15, 5)
Rs2(inst) == Field(inst, 20, 5)
Funct3(inst) == Field(inst, 12, 3)
Funct7(inst) == Field(inst, 25, 7)

\* ((inst as i32 as i64) >> 20) as u64
ImmI(inst) == SignExtend(Shr(inst, 20), 12)

\* (((inst & 0xfe000000) as i32 as i64 >> 20) as u64) | ((inst >> 7) & 0x1f)
ImmS(inst) ==
  Or(SignExtend(Shr(And(inst, 25 .. 31), 20), 12), And(Shr(inst, 7), Mask(5)))

\* The branch offset: bit 31 to bit 12 (sign-extended), bits 30..25 to
\* 10..5, bit 7 to bit 11, bits 11..8 to 4..1.
ImmB(inst) ==
  Or(Or(SignExtend(Shr(And(inst, {31}), 19), 13), And(Shr(inst, 20), U(2016))),
     Or(Shl(And(inst, U(128)), 4), And(Shr(inst, 7), U(30))))

\* (inst & 0xfffff000) as i32 as i64 as u64
ImmU(inst) == SignExtend(And(inst, 12 .. 31), 32)

\* The jump offset: bit 31 to bit 20 (sign-extended), bits 30..21 to 10..1,
\* bit 20 to bit 11, bits 19..12 in place.
ImmJ(inst) ==
  Or(Or(SignExtend(Shr(And(inst, {31}), 11), 21), And(Shr(inst, 20), U(2046))),
     Or(And(Shr(inst, 9), U(2048)), And(inst, 12 .. 19)))

\* self.regs[rd] = v
SetReg(c, rd, v) == [c EXCEPT !.regs[rd] = v]

\* (cond) as u64
AsU64(cond) == IF cond THEN U(1) ELSE U(0)

\* ------------------------------------------------------------------------
\* Cpu::decode_execute, one operator for each opcode
\* ------------------------------------------------------------------------

\* The width of a load by funct3: LB LBU 8, LH LHU 16, LW LWU 32, LD 64.
LoadSize(f3) ==
  IF f3 \in {0, 4} THEN 8
  ELSE IF f3 \in {1, 5} THEN 16
  ELSE IF f3 \in {2, 6} THEN 32 ELSE 64

\* self.load(..)? has returned r: rd gets the value, sign-extended by LB, LH
\* and LW.
LoadedReg(r, rd, f3) ==
  IF r.tag # "Ok" THEN r
  ELSE Done(SetReg(r.cpu, rd,
                   IF f3 \in {0, 1, 2} THEN SignExtend(r.value, LoadSize(f3))
                   ELSE r.value))

\* 0x03: LB LH LW LD LBU LHU LWU
ExecLoad(c, inst) ==
  IF Funct3(inst) = 7 THEN Raise(c, "IllegalInstruction")
  ELSE LoadedReg(Cpu_load(c, wrapping_add(c.regs[Rs1(inst)], ImmI(inst)),
                          LoadSize(Funct3(inst))),
                 Rd(inst), Funct3(inst))

\* 0x0f: FENCE
ExecFence(c, inst) ==
  IF Funct3(inst) = 0 THEN Done(c) ELSE Raise(c, "IllegalInstruction")

\* 0x13: ADDI SLLI SLTI SLTIU XORI SRLI SRAI ORI ANDI. Under funct3 = 5 a
\* funct7 >> 1 other than 0x00 and 0x10 falls in the `_ => ()` arm.
ExecOpImm(c, inst) ==
  LET imm == ImmI(inst)
      shamt == Field(imm, 0, 6)
      f3 == Funct3(inst)
      x == c.regs[Rs1(inst)]
      rd == Rd(inst)
  IN  IF f3 = 0 THEN Done(SetReg(c, rd, wrapping_add(x, imm)))
      ELSE IF f3 = 1 THEN Done(SetReg(c, rd, Shl(x, shamt)))
      ELSE IF f3 = 2 THEN Done(SetReg(c, rd, AsU64(Slt(x, imm))))
      ELSE IF f3 = 3 THEN Done(SetReg(c, rd, AsU64(Ult(x, imm))))
      ELSE IF f3 = 4 THEN Done(SetReg(c, rd, Xor(x, imm)))
      ELSE IF f3 = 5
      THEN IF Funct7(inst) \div 2 = 0 THEN Done(SetReg(c, rd, wrapping_shr(x, shamt)))
           ELSE IF Funct7(inst) \div 2 = 16 THEN Done(SetReg(c, rd, Sar(x, shamt)))
           ELSE Done(c)
      ELSE IF f3 = 6 THEN Done(SetReg(c, rd, Or(x, imm)))
      ELSE Done(SetReg(c, rd, And(x, imm)))

\* 0x17: AUIPC
ExecAuipc(c, inst) ==
  Done(SetReg(c, Rd(inst), wrapping_add(wrapping_sub(c.pc, U(4)), ImmU(inst))))

\* 0x1b: ADDIW SLLIW SRLIW SRAIW
ExecOpImm32(c, inst) ==
  LET imm == ImmI(inst)
      shamnt == Field(imm, 0, 5)
      f3 == Funct3(inst)
      x == c.regs[Rs1(inst)]
      rd == Rd(inst)
  IN  IF f3 = 0 THEN Done(SetReg(c, rd, SignExtend(wrapping_add(x, imm), 32)))
      ELSE IF f3 = 1 THEN Done(SetReg(c, rd, SignExtend(wrapping_shl(x, shamnt), 32)))
      ELSE IF f3 = 5
      THEN IF Funct7(inst) = 0
           THEN Done(SetReg(c, rd, SignExtend(Shr(Truncate(x, 32), shamnt), 32)))
           ELSE IF Funct7(inst) = 32
           THEN Done(SetReg(c, rd, Sar(SignExtend(x, 32), shamnt)))
           ELSE Raise(c, "IllegalInstruction")
      ELSE Raise(c, "IllegalInstruction")

\* 0x23: SB SH SW SD; a funct3 above 3 falls in the `_ => ()` arm.
ExecStore(c, inst) ==
  LET address == wrapping_add(c.regs[Rs1(inst)], ImmS(inst))
      f3 == Funct3(inst)
      size == IF f3 = 0 THEN 8 ELSE IF f3 = 1 THEN 16 ELSE IF f3 = 2 THEN 32 ELSE 64
  IN  IF f3 <= 3 THEN Cpu_store(c, address, size, c.regs[Rs2(inst)])
      ELSE Done(c)

\* self.store(..)? of an AMO has returned st: rd = tmp.
AmoStored(st, rd, tmp) ==
  IF st.tag # "Ok" THEN st ELSE Done(SetReg(st.cpu, rd, tmp))

\* self.load(..)? of an AMO has returned l: AMOADD stores tmp + regs[rs2],
\* AMOSWAP regs[rs2].
AmoLoaded(l, inst, funct5, size) ==
  IF l.tag # "Ok" THEN l
  ELSE AmoStored(
         Cpu_store(l.cpu, l.cpu.regs[Rs1(inst)], size,
                   IF funct5 = 0
                   THEN wrapping_add(l.value, l.cpu.regs[Rs2(inst)])
                   ELSE l.cpu.regs[Rs2(inst)]),
         Rd(inst), l.value)

\* 0x2f: AMOADD.W/D and AMOSWAP.W/D: load, store, then rd = the value loaded.
ExecAmo(c, inst) ==
  IF Funct3(inst) \in {2, 3} /\ Field(inst, 27, 5) \in {0, 1}
  THEN AmoLoaded(Cpu_load(c, c.regs[Rs1(inst)],
                          IF Funct3(inst) = 2 THEN 32 ELSE 64),
                 inst, Field(inst, 27, 5), IF Funct3(inst) = 2 THEN 32 ELSE 64)
  ELSE Raise(c, "IllegalInstruction")

\* 0x33: ADD MUL SUB SLL SLT SLTU XOR SRL DIVU SRA OR AND
ExecOp(c, inst) ==
  LET x == c.regs[Rs1(inst)]
      y == c.regs[Rs2(inst)]
      shamt == Field(y, 0, 6)
      rd == Rd(inst)
      op == << Funct3(inst), Funct7(inst) >>
  IN  IF op = << 0, 0 >> THEN Done(SetReg(c, rd, wrapping_add(x, y)))
      ELSE IF op = << 0, 1 >> THEN Done(SetReg(c, rd, wrapping_mul(x, y)))
      ELSE IF op = << 0, 32 >> THEN Done(SetReg(c, rd, wrapping_sub(x, y)))
      ELSE IF op = << 1, 0 >> THEN Done(SetReg(c, rd, wrapping_shl(x, shamt)))
      ELSE IF op = << 2, 0 >> THEN Done(SetReg(c, rd, AsU64(Slt(x, y))))
      ELSE IF op = << 3, 0 >> THEN Done(SetReg(c, rd, AsU64(Ult(x, y))))
      ELSE IF op = << 4, 0 >> THEN Done(SetReg(c, rd, Xor(x, y)))
      ELSE IF op = << 5, 0 >> THEN Done(SetReg(c, rd, wrapping_shr(x, shamt)))
      ELSE IF op = << 5, 1 >>
      THEN Done(SetReg(c, rd, IF y = {} THEN BitIdx ELSE wrapping_div(x, y)))
      ELSE IF op = << 5, 32 >> THEN Done(SetReg(c, rd, Sar(x, shamt)))
      ELSE IF op = << 6, 0 >> THEN Done(SetReg(c, rd, Or(x, y)))
      ELSE IF op = << 7, 0 >> THEN Done(SetReg(c, rd, And(x, y)))
      ELSE Raise(c, "IllegalInstruction")

\* 0x37: LUI
ExecLui(c, inst) == Done(SetReg(c, Rd(inst), ImmU(inst)))

\* 0x3b: ADDW SUBW SLLW SRLW DIVUW SRAW REMUW. DIVUW and REMUW test the whole
\* of regs[rs2] for 0 and then divide by its low 32 bits: u32::wrapping_div
\* and wrapping_rem panic on a zero divisor.
ExecOp32(c, inst) ==
  LET x == c.regs[Rs1(inst)]
      y == c.regs[Rs2(inst)]
      shamt == Field(y, 0, 5)
      rd == Rd(inst)
      op == << Funct3(inst), Funct7(inst) >>
  IN  IF op = << 0, 0 >> THEN Done(SetReg(c, rd, SignExtend(wrapping_add(x, y), 32)))
      ELSE IF op = << 0, 32 >> THEN Done(SetReg(c, rd, SignExtend(wrapping_sub(x, y), 32)))
      ELSE IF op = << 1, 0 >>
      THEN Done(SetReg(c, rd, SignExtend(Shl(Truncate(x, 32), shamt), 32)))
      ELSE IF op = << 5, 0 >>
      THEN Done(SetReg(c, rd, SignExtend(Shr(Truncate(x, 32), shamt), 32)))
      ELSE IF op = << 5, 1 >>
      THEN IF y = {} THEN Done(SetReg(c, rd, BitIdx))
           ELSE IF Truncate(y, 32) = {} THEN Abort(c)
           ELSE Done(SetReg(c, rd,
                  SignExtend(wrapping_div(Truncate(x, 32), Truncate(y, 32)), 32)))
      ELSE IF op = << 5, 32 >> THEN Done(SetReg(c, rd, Sar(SignExtend(x, 32), shamt)))
      ELSE IF op = << 7, 1 >>
      THEN IF y = {} THEN Done(SetReg(c, rd, x))
           ELSE IF Truncate(y, 32) = {} THEN Abort(c)
           ELSE Done(SetReg(c, rd,
                  SignExtend(wrapping_rem(Truncate(x, 32), Truncate(y, 32)), 32)))
      ELSE Raise(c, "IllegalInstruction")

\* 0x63: BEQ BNE BLT BGE BLTU BGEU
ExecBranch(c, inst) ==
  LET x == c.regs[Rs1(inst)]
      y == c.regs[Rs2(inst)]
      f3 == Funct3(inst)
      taken == IF f3 = 0 THEN x = y
               ELSE IF f3 = 1 THEN x # y
               ELSE IF f3 = 4 THEN Slt(x, y)
               ELSE IF f3 = 5 THEN ~Slt(x, y)
               ELSE IF f3 = 6 THEN Ult(x, y)
               ELSE ~Ult(x, y)
  IN  IF f3 \in {2, 3} THEN Raise(c, "IllegalInstruction")
      ELSE IF taken
      THEN Done([c EXCEPT !.pc = wrapping_add(wrapping_sub(c.pc, U(4)), ImmB(inst))])
      ELSE Done(c)

\* JALR that links before it reads rs1.
ExecJalrLinkFirst(c, inst) ==
  LET c1 == SetReg(c, Rd(inst), c.pc)
  IN  Done([c1 EXCEPT !.pc = And(wrapping_add(c1.regs[Rs1(inst)], ImmI(inst)),
                                 Not(U(1)))])

\* 0x67: JALR
ExecJalr(c, inst) ==
  LET tmp == c.pc
      c1 == [c EXCEPT !.pc = And(wrapping_add(c.regs[Rs1(inst)], ImmI(inst)),
                                 Not(U(1)))]
  IN  Done(SetReg(c1, Rd(inst), tmp))

\* 0x6f: JAL
ExecJal(c, inst) ==
  LET c1 == SetReg(c, Rd(inst), c.pc)
  IN  Done([c1 EXCEPT !.pc = wrapping_add(wrapping_sub(c1.pc, U(4)), ImmJ(inst))])

\* ECALL
Ecall(c) ==
  IF c.mode = User THEN Raise(c, "EnvironmentCallFromUMode")
  ELSE IF c.mode = Supervisor THEN Raise(c, "EnvironmentCallFromSMode")
  ELSE Raise(c, "EnvironmentCallFromMMode")

\* SRET without the store that sets SPIE.
SretSpieKept(c) ==
  Done(ClearBits(
         CopyBit([c EXCEPT !.pc = load_csr(c, SEPC),
                           !.mode = IF Bit(load_csr(c, SSTATUS), 8) = 1
                                    THEN Supervisor ELSE User],
                 SSTATUS, 5, 1),
         SSTATUS, Shl(U(1), 8)))

\* SRET: pc = sepc; mode from SPP; SIE from SPIE; SPIE set; SPP cleared.
Sret(c) ==
  Done(ClearBits(
         SetBit(
           CopyBit([c EXCEPT !.pc = load_csr(c, SEPC),
                             !.mode = IF Bit(load_csr(c, SSTATUS), 8) = 1
                                      THEN Supervisor ELSE User],
                   SSTATUS, 5, 1),
           SSTATUS, 5),
         SSTATUS, Shl(U(1), 8)))

\* The mode MRET returns to, from (mstatus >> 11) & 0b11.
MretMode(mpp) ==
  IF mpp = 2 THEN Machine ELSE IF mpp = 1 THEN Supervisor ELSE User

\* MRET: pc = mepc; mode from MPP; MIE from MPIE; MPIE set; MPP cleared.
Mret(c) ==
  Done(ClearBits(
         SetBit(
           CopyBit([c EXCEPT !.pc = load_csr(c, MEPC),
                             !.mode = MretMode(Field(load_csr(c, MSTATUS), 11, 2))],
                   MSTATUS, 7, 3),
           MSTATUS, 7),
         MSTATUS, Shl(U(3), 11)))

\* The CSR instructions without the update of the paging fields.
ExecCsrStale(c, inst) ==
  LET address == Field(inst, 20, 12)
      f3 == Funct3(inst)
      tmp == load_csr(c, address)
      src == IF f3 \in {1, 2, 3} THEN c.regs[Rs1(inst)] ELSE U(Rs1(inst))
      new == IF f3 \in {1, 5} THEN src
             ELSE IF f3 \in {2, 6} THEN Or(tmp, src)
             ELSE And(tmp, Not(src))
      c1 == IF f3 = 5
            THEN store_csr(SetReg(c, Rd(inst), tmp), address, new)
            ELSE SetReg(store_csr(c, address, new), Rd(inst), tmp)
  IN  Done(c1)

\* The source operand as it would be read after rd has been written.
CsrSourceAfterRd(c, inst) ==
  IF Funct3(inst) \in {1, 2, 3}
  THEN IF Rs1(inst) = Rd(inst) THEN load_csr(c, Field(inst, 20, 12))
       ELSE c.regs[Rs1(inst)]
  ELSE U(Rs1(inst))

\* The source operand of a CSR instruction: self.regs[rs1], read in the
\* store_csr call that precedes the write of rd, or uimm = rs1 as u64.
CsrSource(c, inst) ==
  IF Funct3(inst) \in {1, 2, 3} THEN c.regs[Rs1(inst)] ELSE U(Rs1(inst))

\* CSRRW CSRRS CSRRC CSRRWI CSRRSI CSRRCI (funct3 1, 2, 3, 5, 6, 7): the old
\* value is read, the new one stored, rd written, update_paging called.
ExecCsr(c, inst) ==
  LET address == Field(inst, 20, 12)
      f3 == Funct3(inst)
      tmp == load_csr(c, address)
      src == CsrSource(c, inst)
      new == IF f3 \in {1, 5} THEN src
             ELSE IF f3 \in {2, 6} THEN Or(tmp, src)
             ELSE And(tmp, Not(src))
      c1 == IF f3 = 5
            THEN store_csr(SetReg(c, Rd(inst), tmp), address, new)
            ELSE SetReg(store_csr(c, address, new), Rd(inst), tmp)
  IN  Done(update_paging(c1, address))

\* 0x73: ECALL EBREAK SRET MRET SFENCE.VMA and the CSR instructions
ExecSystem(c, inst) ==
  LET f3 == Funct3(inst)
      op == << Rs2(inst), Funct7(inst) >>
  IN  IF f3 = 0
      THEN IF op = << 0, 0 >> THEN Ecall(c)
           ELSE IF op = << 1, 0 >> THEN Raise(c, "Breakpoint")
           ELSE IF op = << 2, 8 >> THEN Sret(c)
           ELSE IF op = << 2, 24 >> THEN Mret(c)
           ELSE IF op[2] = 9 THEN Done(c)
           ELSE Raise(c, "IllegalInstruction")
      ELSE IF f3 = 4 THEN Raise(c, "IllegalInstruction")
      ELSE ExecCsr(c, inst)

\* "Emulate that register x0 is hardwired with all bits equal to 0": x0 is
\* reset on entry, then the opcode is dispatched.
ResetX0(c) == [c EXCEPT !.regs[0] = U(0)]

decode_execute(c, inst) ==
  LET opcode == Opcode(inst)
      c0 == ResetX0(c)
  IN  IF opcode = 3 THEN ExecLoad(c0, inst)
      ELSE IF opcode = 15 THEN ExecFence(c0, inst)
      ELSE IF opcode = 19 THEN ExecOpImm(c0, inst)
      ELSE IF opcode = 23 THEN ExecAuipc(c0, inst)
      ELSE IF opcode = 27 THEN ExecOpImm32(c0, inst)
      ELSE IF opcode = 35 THEN ExecStore(c0, inst)
      ELSE IF opcode = 47 THEN ExecAmo(c0, inst)
      ELSE IF opcode = 51 THEN ExecOp(c0, inst)
      ELSE IF opcode = 55 THEN ExecLui(c0, inst)
      ELSE IF opcode = 59 THEN ExecOp32(c0, inst)
      ELSE IF opcode = 99 THEN ExecBranch(c0, inst)
      ELSE IF opcode = 103 THEN ExecJalr(c0, inst)
      ELSE IF opcode = 111 THEN ExecJal(c0, inst)
      ELSE IF opcode = 115 THEN ExecSystem(c0, inst)
      ELSE Raise(c0, "IllegalInstruction")

\* ------------------------------------------------------------------------
\* Construction: Cpu::new, Bus::new, Memory::new, Uart::new
\* ------------------------------------------------------------------------

\* The bytes of a sequence of 32-bit words, little-endian, from index 0.
BinaryBytes(words) ==
  [k \in {j \in 0 .. (4 * Len(words) - 1) :
            Field(words[(j \div 4) + 1], 8 * (j % 4), 8) # 0}
     |-> Field(words[(k \div 4) + 1], 8 * (k % 4), 8)]

\* Memory::new: MEMORY_SIZE zero bytes with the binary copied to the head.
Memory_new(binary) == BinaryBytes(binary)

\* Uart::new: the registers zero but LSR, which has the TX bit; no interrupt.
Uart_new ==
  [uart |-> [k \in {UartOffset(UART_LSR)} |-> UART_LSR_TX], interrupt |-> FALSE]

Bus_new(binary) ==
  [ clint |-> Empty, memory |-> Memory_new(binary), plic |-> Empty,
    uart |-> Uart_new,
    virtio |-> [regs |-> Empty, interrupt |-> FALSE, accesses |-> 0,
                claim_seen |-> {}] ]

\* Cpu::new: x2 is MEMORY_SIZE + MEMORY_BASE, pc is MEMORY_BASE, the CSRs are
\* zero, the mode is Machine, paging is off.
Cpu_new(binary) ==
  [ regs |-> [i \in 0 .. 31 |->
                IF i = 2 THEN wrapping_add(MEMORY_SIZE, MEMORY_BASE) ELSE U(0)],
    pc |-> MEMORY_BASE,
    bus |-> Bus_new(binary),
    csr |-> Empty,
    mode |-> Machine,
    enable_paging |-> FALSE,
    page_table |-> U(0) ]

\* ------------------------------------------------------------------------
\* Instruction words of the guest programs
\* ------------------------------------------------------------------------

\* R-type and I-type encodings; imm is the 12-bit field as a number 0..4095.
EncR(funct7, rs2, rs1, funct3, rd, opcode) ==
  Or(Or(Or(Shl(U(funct7), 25), Shl(U(rs2), 20)), Or(Shl(U(rs1), 15), Shl(U(funct3), 12))),
     Or(Shl(U(rd), 7), U(opcode)))

EncI(imm, rs1, funct3, rd, opcode) ==
  Or(Or(Shl(U(imm), 20), Shl(U(rs1), 15)),
     Or(Or(Shl(U(funct3), 12), Shl(U(rd), 7)), U(opcode)))

ECALL == EncR(0, 0, 0, 0, 0, 115)
EBREAK == EncR(0, 1, 0, 0, 0, 115)
SRET == EncR(8, 2, 0, 0, 0, 115)
MRET == EncR(24, 2, 0, 0, 0, 115)
ADDI(rd, rs1, imm) == EncI(imm, rs1, 0, rd, 19)
CSRRW(rd, csr, rs1) == EncI(csr, rs1, 1, rd, 115)
\* jal rd, +8: imm[10:1] is in bits 30..21
JAL8(rd) == Or(Shl(U(4), 21), Or(Shl(U(rd), 7), U(111)))
JALR(rd, rs1, imm) == EncI(imm, rs1, 0, rd, 103)
SLLI(rd, rs1, shamt) == EncI(shamt, rs1, 1, rd, 19)

\* A signed number as a 64-bit word (two's complement).
SignedU(n) == IF n >= 0 THEN U(n) ELSE Not(U(-n - 1))

\* B-type: imm[12] in bit 31, imm[10:5] in 30..25, imm[4:1] in 11..8,
\* imm[11] in bit 7; opcode 0x63.
EncB(imm, rs2, rs1, funct3) ==
  Or(Or(Or(Shl(U((imm % 8192) \div 4096), 31), Shl(U(((imm % 8192) \div 32) % 64), 25)),
        Or(Shl(U(((imm % 8192) \div 2) % 16), 8), Shl(U(((imm % 8192) \div 2048) % 2), 7))),
     Or(Or(Shl(U(rs2), 20), Shl(U(rs1), 15)), Or(Shl(U(funct3), 12), U(99))))

\* J-type: imm[20] in bit 31, imm[10:1] in 30..21, imm[11] in bit 20,
\* imm[19:12] in 19..12; opcode 0x6f.
EncJ(imm, rd) ==
  Or(Or(Or(Shl(U((imm % 2097152) \div 1048576), 31),
           Shl(U(((imm % 2097152) \div 2) % 1024), 21)),
        Or(Shl(U(((imm % 2097152) \div 2048) % 2), 20),
           Shl(U(((imm % 2097152) \div 4096) % 256), 12))),
     Or(Shl(U(rd), 7), U(111)))

\* ------------------------------------------------------------------------
\* The state of the machine
\* ------------------------------------------------------------------------

VARIABLES
  cpu,       \* the Cpu: regs, pc, bus, csr, mode, enable_paging, page_table
  at,        \* where the main loop stands
  inst,      \* the instruction word fetched, to be executed
  raised,    \* the Exception or Interrupt to deliver, or "None"
  steps,     \* iterations of the main loop completed
  old,       \* the Cpu before the last step of the loop
  last,      \* the last step: its name, the trap it raised or delivered,
             \* and the stage (fetch or execute) an exception came from
  fetch_pc,  \* the pc the last fetch was made at
  reader     \* the UART's stdin reader thread, and what the guest has read

vars == << cpu, at, inst, raised, steps, old, last, fetch_pc, reader >>

\* The number of iterations of the main loop that are explored.
MaxSteps == 2

\* ------------------------------------------------------------------------
\* The states the guest's boot code leaves the machine in. The interpreter
\* checks no privilege on a CSR access, so code in any mode stores any value
\* in any CSR, and MRET enters any mode: every combination below is a state
\* of the program. A boot state is the constructor's state with the mode, the
\* CSRs, pc and the device flags replaced, and paging derived from satp.
\* ------------------------------------------------------------------------

\* A CSR file from a set of << address, value >> pairs.
CsrFile(pairs) ==
  [a \in {p[1] : p \in {q \in pairs : q[2] # {}}} |->
     (CHOOSE p \in pairs : p[1] = a)[2]]

\* The reader thread has delivered a byte: RHR holds it, LSR.RX is set and
\* the interrupt flag is up.
UartDelivered ==
  [uart |-> [k \in {0, UartOffset(UART_LSR)} |->
               IF k = 0 THEN 66 ELSE SetRx(UART_LSR_TX)],
   interrupt |-> TRUE]

Boot(binary, mode, pairs, pc, uart_irq, virtio_irq) ==
  LET c == Cpu_new(binary)
  IN  update_paging(
        [c EXCEPT !.mode = mode, !.csr = CsrFile(pairs), !.pc = pc,
                  !.bus.uart = IF uart_irq THEN UartDelivered ELSE @,
                  !.bus.virtio.interrupt = virtio_irq], SATP)

\* Trap vectors and return addresses inside RAM.
HandlerM == Or(MEMORY_BASE, U(64))
HandlerS == Or(MEMORY_BASE, U(128))
ReturnM == Or(MEMORY_BASE, U(16))
ReturnS == Or(MEMORY_BASE, U(32))

\* satp with mode 8 (Sv39) and the root table at MEMORY_BASE.
SatpOn == Or(Shl(U(8), 60), Shr(MEMORY_BASE, PAGE_SHIFT))

\* Trap returns: every MIE, MPIE, MPP under MRET; every SIE, SPIE, SPP and
\* one more bit (18) under SRET; from every mode.
BootReturns ==
  {Boot(<< MRET >>, m, {<< MSTATUS, ms >>, << MEPC, ReturnM >>, << SEPC, ReturnS >>,
                        << SSTATUS, {1, 8} >>, << MTVEC, HandlerM >>},
        MEMORY_BASE, FALSE, FALSE)
     : m \in Modes, ms \in SUBSET {3, 7, 11, 12}}
  \cup
  {Boot(<< SRET >>, m, {<< SSTATUS, ss >>, << MEPC, ReturnM >>, << SEPC, ReturnS >>,
                        << MSTATUS, {3, 11} >>, << MTVEC, HandlerM >>},
        MEMORY_BASE, FALSE, FALSE)
     : m \in Modes, ss \in SUBSET {1, 5, 8, 18}}

\* Exceptions: instructions that raise one (and some that do not), a fetch
\* outside every window, and a fetch through an empty page table; under
\* several medeleg and status values, from every mode.
ExceptionPrograms ==
  { << ECALL >>, << EBREAK >>, << U(0) >>, << ADDI(0, 0, 1) >>, << JAL8(0) >>,
    << CSRRW(0, MSTATUS, 2) >>, << JALR(0, 2, 0) >> }

MedelegValues == { {}, {3}, {8, 9}, {1, 11, 12}, 0 .. 15 }

StatusValues ==
  { << {}, {} >>, << {3}, {1} >>, << {3, 7, 11, 12}, {1, 5, 8} >>,
    << {7}, {5, 18} >> }

BootExceptions ==
  {Boot(b, m, {<< MEDELEG, d >>, << MSTATUS, st[1] >>, << SSTATUS, st[2] >>,
               << MTVEC, HandlerM >>, << STVEC, HandlerS >>},
        MEMORY_BASE, FALSE, FALSE)
     : b \in ExceptionPrograms, m \in Modes, d \in MedelegValues, st \in StatusValues}
  \cup
  {Boot(<< ECALL >>, m, {<< MEDELEG, d >>, << MSTATUS, st[1] >>, << SSTATUS, st[2] >>,
                         << MTVEC, HandlerM >>, << STVEC, HandlerS >>, << SATP, sp >>},
        pc, FALSE, FALSE)
     : m \in Modes, d \in MedelegValues, st \in StatusValues,
       sp \in {{}, SatpOn}, pc \in {U(4096), MEMORY_BASE}}

\* Interrupt polls: after a no-op, from every mode, with MIE and SIE on and
\* off, the device flags up and down, several mie and mip, direct and
\* vectored trap vectors, with and without delegation.
NOP == ADDI(0, 0, 0)

IrqBits == {1, 3, 5, 7, 9, 11}

MipValues == { {}, {11}, {3, 7}, {7, 9}, {9}, {1, 5}, {5}, {1, 3, 11} }

\* << mtvec, stvec, medeleg, mideleg >>
VectorValues ==
  { << HandlerM, HandlerS, {}, {} >>,
    << Or(HandlerM, U(1)), Or(HandlerS, U(1)), {1, 5, 9}, {1, 5, 9} >>,
    << HandlerM, HandlerS, {1, 5, 9}, {} >> }

BootPolls ==
  {Boot(<< NOP >>, m, {<< MSTATUS, ms >>, << SSTATUS, ss >>, << MIE, ie >>,
                       << MIP, ip >>, << MTVEC, v[1] >>, << STVEC, v[2] >>,
                       << MEDELEG, v[3] >>, << MIDELEG, v[4] >>},
        MEMORY_BASE, u, d)
     : m \in Modes, ms \in {{}, {3}}, ss \in {{}, {1}}, ie \in {IrqBits, {1, 5, 9}},
       ip \in MipValues, v \in VectorValues, u \in BOOLEAN, d \in BOOLEAN}
  \cup
  {Boot(<< NOP >>, Machine, {<< MSTATUS, {3} >>, << MIE, IrqBits >>, << MIP, ip >>,
                             << MTVEC, HandlerM >>},
        MEMORY_BASE, u, FALSE)
     : ip \in SUBSET IrqBits, u \in BOOLEAN}
  \cup
  {Boot(<< NOP, NOP >>, m, {<< MSTATUS, {3} >>, << SSTATUS, {1} >>, << MIE, ie >>,
                            << MIP, ip >>, << MTVEC, HandlerM >>,
                            << STVEC, HandlerS >>},
        MEMORY_BASE, u, d)
     : m \in Modes, ie \in {{}, {9}}, ip \in {{}, {9}}, u \in BOOLEAN,
       d \in BOOLEAN}

\* A gigapage PTE (V|R|X) that maps the virtual addresses from 1 << 30 onto
\* the RAM, and the virtual address of the word 4 of the RAM under it.
PteRam == Or(Shl(Shr(MEMORY_BASE, PAGE_SHIFT), 10), U(11))
MappedPc == Or(Shl(U(1), 30), U(16))

\* Writes of satp: with paging on (the root table at MEMORY_BASE maps the
\* program), satp is overwritten with x2, which turns paging off; with
\* paging off, x2 << 32, whose top four bits are 8, turns it on.
BootPaging ==
  {Boot(<< U(0), U(0), PteRam, U(0), CSRRW(0, SATP, 2), NOP >>, m,
        {<< SATP, SatpOn >>, << MTVEC, HandlerM >>}, MappedPc, FALSE, FALSE)
     : m \in Modes}
  \cup
  {Boot(<< SLLI(1, 2, 32), CSRRW(0, SATP, 1) >>, m, {<< MTVEC, HandlerM >>},
        MEMORY_BASE, FALSE, FALSE)
     : m \in Modes}

\* Transfers to an address that is not a multiple of 4, inside the RAM: an
\* MRET with bit 1 of mepc set, an SRET with bit 1 of sepc set, a jump by 6
\* and a trap entry with bit 1 of mtvec set.
BootMisaligned ==
  { Boot(<< MRET >>, Machine, {<< MEPC, Or(ReturnM, U(2)) >>, << MTVEC, HandlerM >>},
         MEMORY_BASE, FALSE, FALSE),
    Boot(<< SRET >>, Supervisor, {<< SEPC, Or(ReturnS, U(2)) >>, << MTVEC, HandlerM >>},
         MEMORY_BASE, FALSE, FALSE),
    Boot(<< EncJ(6, 1) >>, Machine, {<< MTVEC, HandlerM >>}, MEMORY_BASE, FALSE, FALSE),
    Boot(<< ECALL >>, Machine, {<< MTVEC, Or(HandlerM, U(2)) >>},
         MEMORY_BASE, FALSE, FALSE) }

\* A program of one instruction with a handler that returns at once: MRET at
\* HandlerM, SRET at HandlerS.
HandledProgram(first) ==
  [i \in 1 .. 33 |-> IF i = 1 THEN first
                     ELSE IF i = 17 THEN MRET
                     ELSE IF i = 33 THEN SRET ELSE U(0)]

\* Interrupted programs: a NOP, a jump by 8 or an ECALL at MEMORY_BASE, one
\* interrupt pending and enabled (machine timer or supervisor external),
\* delegated or not (as is the ECALL from Supervisor mode, exception 9), in
\* Machine and in Supervisor mode.
BootHandled ==
  {Boot(HandledProgram(f), m,
        {<< MSTATUS, {3} >>, << SSTATUS, {1} >>, << MIE, {b} >>, << MIP, {b} >>,
         << MTVEC, HandlerM >>, << STVEC, HandlerS >>, << MEDELEG, d >>,
         << MIDELEG, d >>},
        MEMORY_BASE, FALSE, FALSE)
     : f \in {NOP, JAL8(0), ECALL}, m \in {Supervisor, Machine}, b \in {7, 9},
       d \in {{}, {9}}}

BootStates ==
  BootReturns \cup BootExceptions \cup BootPolls \cup BootPaging \cup BootMisaligned
    \cup BootHandled

\* ------------------------------------------------------------------------
\* The main loop: fetch, advance pc by 4, execute, deliver the exception if
\* one was raised (a fatal one ends the loop), poll for an interrupt and
\* deliver it.
\* ------------------------------------------------------------------------

Step(op, arg, stage) == [op |-> op, arg |-> arg, stage |-> stage]

\* The reader thread spawned by Uart::new, about to call stdin.read, with
\* `let mut byte = [0]`. stdin will give the bytes `input`; once they are
\* read, a read blocks for ever if stdin stays open and returns Ok(0) if it
\* is at its end. History: `got` are the bytes the guest has loaded from RHR,
\* `polite` is true while every such load was made with LSR.RX = 1,
\* `delivered` are the bytes the reader has stored into RHR, `unread` is
\* true from such a store to the next load of RHR, `n` is what the last
\* stdin.read returned, `stores` counts the guest's stores to the UART.
\* `notified` is the condition variable: a notify_one that found the reader
\* waiting and has not woken it yet.
Reader(input, open) ==
  [pc |-> "read", byte |-> 0, stdin |-> input, open |-> open, input |-> input,
   got |-> << >>, polite |-> TRUE, delivered |-> << >>, unread |-> FALSE,
   n |-> 0, notified |-> FALSE, stores |-> 0]

Init ==
  /\ cpu \in BootStates
  /\ at = "fetch"
  /\ inst = U(0)
  /\ raised = "None"
  /\ steps = 0
  /\ old = cpu
  /\ last = Step("boot", "None", "none")
  /\ fetch_pc = cpu.pc
  /\ reader = Reader(<< >>, TRUE)

\* fetch has returned r: an instruction (pc += 4 follows), an exception to
\* deliver, or a panic.
AfterFetch(r) ==
  IF r.tag = "Ok"
  THEN /\ cpu' = [r.cpu EXCEPT !.pc = wrapping_add(@, U(4))]
       /\ inst' = r.value
       /\ raised' = "None"
       /\ at' = "execute"
  ELSE /\ cpu' = r.cpu
       /\ inst' = inst
       /\ raised' = IF r.tag = "Err" THEN r.err ELSE "None"
       /\ at' = IF r.tag = "Err" THEN "exception" ELSE "panicked"

Fetch ==
  /\ at = "fetch"
  /\ steps < MaxSteps
  /\ AfterFetch(fetch(cpu))
  /\ old' = cpu
  /\ fetch_pc' = cpu.pc
  /\ last' = Step("fetch", raised', "fetch")
  /\ UNCHANGED << steps, reader >>

\* decode_execute has returned r.
AfterExecute(r) ==
  /\ cpu' = r.cpu
  /\ raised' = IF r.tag = "Err" THEN r.err ELSE "None"
  /\ at' = IF r.tag = "Ok" THEN "poll"
           ELSE IF r.tag = "Err" THEN "exception" ELSE "panicked"

\* decode_execute of the instruction fetched.
Execute ==
  /\ at = "execute"
  /\ AfterExecute(decode_execute(cpu, inst))
  /\ old' = cpu
  /\ last' = Step("decode_execute", raised', "execute")
  /\ UNCHANGED << inst, steps, fetch_pc, reader >>

\* Exception::get_trap of the exception raised; a fatal one ends the loop.
TakeException ==
  /\ at = "exception"
  /\ old' = cpu
  /\ cpu' = Exception_get_trap(raised, cpu)
  /\ at' = IF is_fatal(raised) THEN "halted" ELSE "poll"
  /\ last' = Step("Exception::get_trap", raised, last.stage)
  /\ raised' = "None"
  /\ UNCHANGED << inst, steps, fetch_pc, reader >>

\* check_pending_interrupt has returned r: << the cpu after it, the
\* interrupt or "None" >>; with none, the step is over.
AfterPoll(r) ==
  /\ cpu' = r[1]
  /\ raised' = r[2]
  /\ at' = IF r[2] = "None" THEN "fetch" ELSE "interrupt"
  /\ steps' = IF r[2] = "None" THEN steps + 1 ELSE steps

Poll ==
  /\ at = "poll"
  /\ AfterPoll(check_pending_interrupt(cpu))
  /\ old' = cpu
  /\ last' = Step("check_pending_interrupt", raised', "poll")
  /\ UNCHANGED << inst, fetch_pc, reader >>

\* Interrupt::get_trap of the interrupt taken. Where 4 * cause overflows, a
\* debug build panics and a release build wraps.
TakeInterrupt ==
  /\ at = "interrupt"
  /\ old' = cpu
  /\ last' = Step("Interrupt::get_trap", raised, "poll")
  /\ raised' = "None"
  /\ \/ /\ cpu' = Interrupt_get_trap(raised, cpu)
        /\ at' = "fetch"
        /\ steps' = steps + 1
     \/ /\ Interrupt_get_trap_panics(raised, cpu)
        /\ cpu' = cpu
        /\ at' = "panicked"
        /\ steps' = steps
  /\ UNCHANGED << inst, fetch_pc, reader >>

Next == Fetch \/ Execute \/ TakeException \/ Poll \/ TakeInterrupt

Spec == Init /\ [][Next]_vars

\* ------------------------------------------------------------------------
\* Calls of the bus, of the CSR file and of the translation, made on a hart
\* one at a time; a store may be followed by a load. `last` names the call,
\* its arguments and what it returned, and keeps the call before it.
\* ------------------------------------------------------------------------

Called(op, arg, result) ==
  [op |-> op, arg |-> arg, stage |-> "call", result |-> result,
   before |-> [op |-> last.op, arg |-> last.arg]]

\* MEMORY_BASE + MEMORY_SIZE, the first address past the RAM.
MEMORY_END == wrapping_add(MEMORY_BASE, MEMORY_SIZE)

\* Addresses of the calls: in RAM (its first byte, an odd address, its last
\* eight bytes, its last byte), just past the RAM, below every window,
\* between the UART and VirtIO, and in CLINT (mtimecmp).
BusAddrs ==
  { MEMORY_BASE, Or(MEMORY_BASE, U(1)), wrapping_sub(MEMORY_END, U(8)),
    wrapping_sub(MEMORY_END, U(1)), MEMORY_END, U(4096), UART_END,
    Or(CLINT_BASE, U(16384)) }

\* Sizes of the calls: the four the devices know and two they do not.
BusSizes == {8, 16, 32, 64, 24, 128}

\* 0x8877665544332211 and 0xfffffffffffffff8
BusValues ==
  { { 0, 4, 9, 13, 16, 17, 20, 21, 26, 30, 32, 34, 36, 38, 41, 42, 45, 46, 48, 49, 50, 52, 53, 54, 59, 63 },
    3 .. 63 }

\* The harts of the bus calls: after construction, the RAM zero or holding
\* the words 0xffffffff, 0x12345678, 0xffffffff.
BusStates == { Cpu_new(<< >>), Cpu_new(<< 0 .. 31, U(305419896), 0 .. 31 >>) }

\* bus.store(addr, size, value) has returned r.
AfterBusStore(arg, r) ==
  /\ cpu' = IF r.tag = "Ok" THEN [cpu EXCEPT !.bus = r.value] ELSE cpu
  /\ at' = IF r.tag = "Panic" THEN "panicked" ELSE "bus_stored"
  /\ last' = Called("Bus::store", arg, IF r.tag = "Ok" THEN Ok("()") ELSE r)

BusStore ==
  /\ at = "bus"
  /\ \E addr \in BusAddrs, size \in BusSizes, value \in BusValues :
       AfterBusStore([addr |-> addr, size |-> size, value |-> value],
                     Bus_store(cpu.bus, addr, size, value))
  /\ old' = cpu
  /\ UNCHANGED << inst, raised, steps, fetch_pc, reader >>

\* bus.load(addr, size) has returned r.
AfterBusLoad(arg, r) ==
  /\ cpu' = IF r.tag = "Ok" THEN [cpu EXCEPT !.bus = r.value[1]] ELSE cpu
  /\ at' = IF r.tag = "Panic" THEN "panicked" ELSE "returned"
  /\ last' = Called("Bus::load", arg, IF r.tag = "Ok" THEN Ok(r.value[2]) ELSE r)

BusLoad ==
  /\ at \in {"bus", "bus_stored"}
  /\ \E addr \in BusAddrs, size \in BusSizes :
       AfterBusLoad([addr |-> addr, size |-> size], Bus_load(cpu.bus, addr, size))
  /\ old' = cpu
  /\ UNCHANGED << inst, raised, steps, fetch_pc, reader >>

\* CSRs of the calls and the values written.
CsrAddrs == {SIE, MIE, MIDELEG, SSTATUS, MSTATUS}

CsrValues == { {}, {1, 9}, {1, 3, 5, 7, 9, 11, 20}, BitIdx }

\* The harts of the CSR calls: several mie and mideleg, mstatus and sstatus
\* not zero.
CsrStates ==
  {Boot(<< >>, Machine, {<< MIE, ie >>, << MIDELEG, dg >>, << MSTATUS, {3} >>,
                         << SSTATUS, {1} >>},
        MEMORY_BASE, FALSE, FALSE)
     : ie \in {{}, {1, 5, 9}, IrqBits, {3, 7, 11}},
       dg \in {{}, {1, 5, 9}, {1}, IrqBits}}

StoreCsr ==
  /\ at = "csr"
  /\ \E address \in CsrAddrs, value \in CsrValues :
       /\ cpu' = store_csr(cpu, address, value)
       /\ last' = Called("store_csr", [address |-> address, value |-> value],
                         Ok("()"))
  /\ at' = "csr_stored"
  /\ old' = cpu
  /\ UNCHANGED << inst, raised, steps, fetch_pc, reader >>

LoadCsr ==
  /\ at \in {"csr", "csr_stored"}
  /\ \E address \in CsrAddrs :
       last' = Called("load_csr", [address |-> address],
                      Ok(load_csr(cpu, address)))
  /\ at' = "returned"
  /\ old' = cpu
  /\ UNCHANGED << cpu, inst, raised, steps, fetch_pc, reader >>

\* Page tables in RAM: table k is the page at MEMORY_BASE + 4096 k; the root
\* is table 1, its slot 0 may point to table 2, whose slot 0 may point to
\* table 3.
TableAt(k) == Or(MEMORY_BASE, U(4096 * k))

\* A PTE: ppn in bits 10 .. 53, the flags V, R, W, X in bits 0 .. 3.
Pte(ppn, flags) == Or(Shl(ppn, 10), U(flags))

\* A PTE that points to table k (V alone).
PtePointer(k) == Pte(Shr(TableAt(k), PAGE_SHIFT), 1)

\* Leaves: V|R and V|X, with ppn[2], ppn[1], ppn[0] all nonzero, the top
\* bit of ppn[2] and, in the first, a reserved bit (60) set.
PteLeafR == Or(Pte({0, 1, 2, 9, 10, 18, 20, 43}, 3), Shl(U(1), 60))
PteLeafX == Pte({1, 2, 10, 11, 19, 42}, 9)

\* V|W without R is not valid.
PteWriteOnly == Pte({0, 9, 18}, 5)

\* satp: Sv39 with the root in table 1.
SatpTables == Or(Shl(U(8), 60), Shr(TableAt(1), PAGE_SHIFT))

\* The hart c with the PTE stored in slot `slot` of table k.
WithPte(c, k, slot, pte) ==
  [c EXCEPT !.bus = Bus_store(@, Or(TableAt(k), U(8 * slot)), 64, pte).value]

\* The harts of the translations: every mode, paging on and off, and the
\* slots 0 of the three tables invalid, a leaf, or a pointer.
TableStates ==
  {WithPte(WithPte(WithPte(WithPte(WithPte(WithPte(
     Boot(<< >>, m, {<< SATP, sp >>}, MEMORY_BASE, FALSE, FALSE),
     1, 0, p1), 1, 1, PteLeafX), 2, 0, p2), 2, 1, PteLeafR), 3, 0, p3),
     3, 1, PteLeafX)
     : m \in Modes, sp \in {{}, SatpTables},
       p1 \in {{}, PteLeafR, PtePointer(2)},
       p2 \in {PteWriteOnly, PteLeafX, PtePointer(3)},
       p3 \in {{}, PteLeafR, PtePointer(1)}}

\* Virtual addresses: vpn[2], vpn[1], vpn[0] each 0 or 1 with the offset
\* 0xabc, and one with bits above the 39th set.
VirtualAddrs ==
  {Or(Or(Shl(U(v2), 30), Shl(U(v1), 21)), Or(Shl(U(v0), 12), U(2748)))
     : v2 \in {0, 1}, v1 \in {0, 1}, v0 \in {0, 1}}
  \cup {Or(Shl(U(5), 61), Or(Shl(U(1), 12), U(4095)))}

\* translate(addr, access_type) has returned r.
AfterTranslate(arg, r) ==
  /\ at' = IF r.tag = "Panic" THEN "panicked" ELSE "returned"
  /\ last' = Called("translate", arg, r)

Translate ==
  /\ at = "translate"
  /\ \E addr \in VirtualAddrs, access_type \in {"Instruction", "Load", "Store"} :
       AfterTranslate([addr |-> addr, access_type |-> access_type],
                      translate(cpu, addr, access_type))
  /\ old' = cpu
  /\ UNCHANGED << cpu, inst, raised, steps, fetch_pc, reader >>

\* The harts of the direct decode_execute calls: x1 and x2 hold small signed
\* numbers, pc is 4 or MEMORY_BASE + 0x104 (the instruction is at pc - 4).
RegValues == {-1, 0, 5, 6}

ExecStates ==
  {[Cpu_new(<< >>) EXCEPT !.regs[1] = SignedU(a), !.regs[2] = SignedU(b), !.pc = p]
     : a \in RegValues, b \in RegValues, p \in {U(4), Or(MEMORY_BASE, U(260))}}

\* An instruction word with what it encodes.
Word(kind, word, funct3, rd, rs1, rs2, imm) ==
  [kind |-> kind, word |-> word, funct3 |-> funct3, rd |-> rd, rs1 |-> rs1,
   rs2 |-> rs2, imm |-> imm]

BranchWords ==
  {Word("branch", EncB(imm, rs2, rs1, f3), f3, 0, rs1, rs2, imm)
     : f3 \in {0, 1, 4, 5, 6, 7}, rs1 \in {1, 2}, rs2 \in {1, 2},
       imm \in {8, -8, 4094, -4096}}

JalWords ==
  {Word("jal", EncJ(imm, rd), 0, rd, 0, 0, imm)
     : rd \in {0, 1, 5}, imm \in {8, -8, 1048574, -1048576}}

JalrWords ==
  {Word("jalr", JALR(rd, rs1, imm % 4096), 0, rd, rs1, 0, imm)
     : rd \in {1, 5}, rs1 \in {1, 2}, imm \in {0, 5, -3, 2047, -2048}}

\* Words that encode no supported instruction: opcodes 0x00, 0x0b and 0x7f;
\* 0x03 funct3 7; 0x0f funct3 1; 0x13 funct3 5 with funct6 1 and 0x3f;
\* 0x13 funct3 1 with funct6 0x10; 0x1b funct3 2 and funct3 5 with funct7 1;
\* 0x23 funct3 4 and 7; 0x33 funct7 2; 0x63 funct3 2 and 3; 0x73 funct3 4
\* and funct3 0 with funct7 1.
UnsupportedWords ==
  {Word("unsupported", w, Funct3(w), Rd(w), Rs1(w), Rs2(w), 0)
     : w \in { U(0), U(11), 0 .. 31,
               EncI(0, 1, 7, 5, 3), EncI(0, 0, 1, 0, 15),
               EncI(67, 1, 5, 5, 19), EncI(4035, 1, 5, 5, 19),
               EncI(1027, 1, 1, 5, 19),
               EncI(1, 1, 2, 5, 27), EncR(1, 3, 1, 5, 5, 27),
               EncR(0, 2, 1, 4, 0, 35), EncR(0, 2, 1, 7, 8, 35),
               EncR(2, 2, 1, 0, 5, 51),
               EncB(8, 2, 1, 2), EncB(8, 2, 1, 3),
               EncI(0, 1, 4, 5, 115), EncR(1, 0, 0, 0, 0, 115) }}

ExecWords == BranchWords \cup JalWords \cup JalrWords \cup UnsupportedWords

\* The harts of the CSR instructions: Machine mode, mstatus, mie, mideleg and
\* sscratch (0x140) not zero, paging off or on (satp Sv39), x1 zero, small,
\* a satp value with mode 8, or all ones, x2 = 6.
CsrExecStates ==
  {[Boot(<< >>, Machine,
         {<< MSTATUS, {1, 3} >>, << MIE, {1, 5, 9, 11} >>, << MIDELEG, {1, 9} >>,
          << 320, U(85) >>, << SATP, sp >>},
         Or(MEMORY_BASE, U(260)), FALSE, FALSE)
      EXCEPT !.regs[1] = x1, !.regs[2] = U(6)]
     : sp \in {{}, SatpOn}, x1 \in {U(0), U(3), SatpTables, BitIdx}}

\* CSRRW CSRRS CSRRC CSRRWI CSRRSI CSRRCI on sscratch, sie, mstatus and
\* satp, with rd = rs1, rd # rs1, rs1 = x0 (uimm = 0) and rd = x0; `imm` is
\* the CSR address.
CsrWords ==
  {Word("csr", EncI(address, r[2], f3, r[1], 115), f3, r[1], r[2], 0, address)
     : f3 \in {1, 2, 3, 5, 6, 7}, address \in {320, SIE, MSTATUS, SATP},
       r \in {<< 1, 1 >>, << 5, 1 >>, << 5, 0 >>, << 2, 2 >>, << 0, 1 >>}}

\* Operands of the OP-32 instructions: zero, small, bit 31 set, the low 32
\* bits zero under a set bit 32, bits on both sides, 0x7fffffff, all ones.
Op32Values ==
  { U(0), U(7), U(100), {31}, {32}, {32} \cup U(7), {2, 31, 40}, 0 .. 30, BitIdx }

\* The harts of the OP-32 instructions: x1 and x2 hold the operands.
Op32States ==
  {[Cpu_new(<< >>) EXCEPT !.regs[1] = a, !.regs[2] = b, !.pc = Or(MEMORY_BASE, U(260))]
     : a \in Op32Values, b \in Op32Values}

\* ADDW SUBW SLLW SRLW DIVUW SRAW REMUW x5, x1, x2; the kind is the name.
Op32Words ==
  {Word(n[1], EncR(n[3], 2, 1, n[2], 5, 59), n[2], 5, 1, 2, 0)
     : n \in { << "ADDW", 0, 0 >>, << "SUBW", 0, 32 >>, << "SLLW", 1, 0 >>,
               << "SRLW", 5, 0 >>, << "DIVUW", 5, 1 >>, << "SRAW", 5, 32 >>,
               << "REMUW", 7, 1 >> }}

\* The words tried on the harts of each family.
DecodeWords ==
  IF at = "decode" THEN ExecWords
  ELSE IF at = "decode_csr" THEN CsrWords
  ELSE Op32Words

\* decode_execute(inst) has returned r.
AfterDecodeExecute(w, r) ==
  /\ cpu' = r.cpu
  /\ raised' = IF r.tag = "Err" THEN r.err ELSE "None"
  /\ at' = IF r.tag = "Panic" THEN "panicked" ELSE "returned"
  /\ last' = Called("decode_execute", w, IF r.tag = "Err" THEN Err(r.err) ELSE [tag |-> r.tag])

DecodeExecute ==
  /\ at \in {"decode", "decode_csr", "decode_op32"}
  /\ \E w \in DecodeWords :
       /\ inst' = w.word
       /\ AfterDecodeExecute(w, decode_execute(cpu, w.word))
  /\ old' = cpu
  /\ UNCHANGED << steps, fetch_pc, reader >>

CallInit ==
  /\ \/ at = "bus" /\ cpu \in BusStates
     \/ at = "csr" /\ cpu \in CsrStates
     \/ at = "translate" /\ cpu \in TableStates
     \/ at = "decode" /\ cpu \in ExecStates
     \/ at = "decode_csr" /\ cpu \in CsrExecStates
     \/ at = "decode_op32" /\ cpu \in Op32States
  /\ inst = U(0)
  /\ raised = "None"
  /\ steps = 0
  /\ old = cpu
  /\ last = Step("boot", "None", "none")
  /\ fetch_pc = cpu.pc
  /\ reader = Reader(<< >>, TRUE)

CallNext ==
  BusStore \/ BusLoad \/ StoreCsr \/ LoadCsr \/ Translate \/ DecodeExecute

CallSpec == CallInit /\ [][CallNext]_vars

\* ------------------------------------------------------------------------
\* The UART's two threads (bus/uart.rs): the reader thread spawned by
\* Uart::new, one step per statement of its loop, and the CPU thread, which
\* loads the UART's registers and polls is_interrupting. The register array
\* is behind a mutex: the reader holds it from its lock() to the end of the
\* Ok arm, but for the time it waits on the condition variable; load takes
\* it for the whole call; is_interrupting does not take it.
\* ------------------------------------------------------------------------

\* The number of loads of RHR by the guest that are explored.
MaxReads == 3

\* The number of stores to the UART by the guest that are explored.
MaxStores == 1

\* What stdin gives.
Inputs == { << >>, << 65 >>, << 65, 66 >>, << 66, 0 >> }

\* (UART_RHR - UART_BASE) as usize and (UART_LSR - UART_BASE) as usize, the
\* indices of RHR and LSR in the register array.
RhrIndex == UartOffset(UART_RHR)
LsrIndex == UartOffset(UART_LSR)

\* A call of the CPU thread on the UART, its arguments and its result.
UartCalled(op, arg, result) ==
  [op |-> op, arg |-> arg, stage |-> "call", result |-> result]

\* LSR.RX in the register array of the uart u.
LsrRx(u) == Get(u.uart, LsrIndex, 0) % 2 = 1

\* The reader holds the mutex.
ReaderLocked == reader.pc \in {"check", "store", "flag", "set_rx"}

\* io::stdin().read(&mut byte): Ok(1) with the next byte in `byte`, or
\* Ok(0) at the end of stdin with `byte` as it was; both take the Ok(_) arm.
ReaderRead ==
  /\ at = "uart"
  /\ reader.pc = "read"
  /\ \/ /\ reader.stdin # << >>
        /\ reader' = [reader EXCEPT !.byte = Head(reader.stdin),
                                    !.stdin = Tail(reader.stdin),
                                    !.n = 1,
                                    !.pc = "lock"]
     \/ /\ reader.stdin = << >>
        /\ ~reader.open
        /\ reader' = [reader EXCEPT !.n = 0, !.pc = "lock"]
  /\ UNCHANGED << cpu, at, inst, raised, steps, old, last, fetch_pc >>

\* uart.lock(): the CPU thread's calls are whole steps, so the mutex is free.
ReaderLock ==
  /\ at = "uart"
  /\ reader.pc = "lock"
  /\ reader' = [reader EXCEPT !.pc = "check"]
  /\ UNCHANGED << cpu, at, inst, raised, steps, old, last, fetch_pc >>

\* while (uart[LSR] & UART_LSR_RX) == 1 { uart = cvar.wait(uart) }
ReaderCheck ==
  /\ at = "uart"
  /\ reader.pc = "check"
  /\ reader' = [reader EXCEPT !.pc = IF LsrRx(cpu.bus.uart) THEN "waiting"
                                     ELSE "store"]
  /\ UNCHANGED << cpu, at, inst, raised, steps, old, last, fetch_pc >>

\* cvar.wait returns with the mutex: woken by a notify_one, or spuriously
\* (Condvar::wait "is susceptible to spurious wakeups").
ReaderWake ==
  /\ at = "uart"
  /\ reader.pc = "waiting"
  /\ \/ /\ reader.notified
        /\ reader' = [reader EXCEPT !.pc = "check", !.notified = FALSE]
     \/ /\ ~reader.notified
        /\ reader' = [reader EXCEPT !.pc = "check"]
  /\ UNCHANGED << cpu, at, inst, raised, steps, old, last, fetch_pc >>

\* uart[0] = byte[0]
ReaderStore ==
  /\ at = "uart"
  /\ reader.pc = "store"
  /\ cpu' = [cpu EXCEPT !.bus.uart.uart = Put(@, RhrIndex, reader.byte, 0)]
  /\ reader' = [reader EXCEPT !.pc = "flag", !.unread = TRUE,
                              !.delivered = Append(@, reader.byte)]
  /\ UNCHANGED << at, inst, raised, steps, old, last, fetch_pc >>

\* cloned_interrupt.store(true, Ordering::Release)
ReaderFlag ==
  /\ at = "uart"
  /\ reader.pc = "flag"
  /\ cpu' = [cpu EXCEPT !.bus.uart.interrupt = TRUE]
  /\ reader' = [reader EXCEPT !.pc = "set_rx"]
  /\ UNCHANGED << at, inst, raised, steps, old, last, fetch_pc >>

\* uart[LSR] |= UART_LSR_RX, and the mutex is released at the end of the arm.
ReaderSetRx ==
  /\ at = "uart"
  /\ reader.pc = "set_rx"
  /\ cpu' = [cpu EXCEPT !.bus.uart.uart =
               Put(@, LsrIndex, SetRx(Get(@, LsrIndex, 0)), 0)]
  /\ reader' = [reader EXCEPT !.pc = "read"]
  /\ UNCHANGED << at, inst, raised, steps, old, last, fetch_pc >>

\* A notify_one that wakes nobody.
notify_none(r) == r

\* cvar.notify_one() in the RHR arm of Uart::load: the reader is woken if it
\* is waiting; with no thread waiting the notification is dropped.
notify_one(r) == [r EXCEPT !.notified = @ \/ r.pc = "waiting"]

\* Uart::load(addr, 8) by the CPU thread has returned r; `before` is what
\* the call found: LSR.RX, whether a byte was delivered and not yet read,
\* the bytes delivered, how many bytes the guest had read, where the reader
\* stood. The result carries LSR.RX as the call left it.
AfterUartLoad(addr, before, r) ==
  /\ cpu' = [cpu EXCEPT !.bus.uart = r.value[1]]
  /\ last' = UartCalled("Uart::load", [addr |-> addr, before |-> before],
                    [tag |-> "Ok", value |-> r.value[2], rx |-> LsrRx(r.value[1])])
  /\ reader' = IF addr = UART_RHR
               THEN [notify_one(reader) EXCEPT !.got = Append(@, Val(r.value[2])),
                                               !.polite = @ /\ before.rx,
                                               !.unread = FALSE]
               ELSE reader

UartLoad ==
  /\ at = "uart"
  /\ ~ReaderLocked
  /\ \E addr \in {UART_RHR, UART_LSR} :
       /\ addr = UART_RHR => Len(reader.got) < MaxReads
       /\ AfterUartLoad(addr,
                        [rx |-> LsrRx(cpu.bus.uart), unread |-> reader.unread,
                         delivered |-> reader.delivered,
                         reads |-> Len(reader.got), pc |-> reader.pc],
                        Uart_load(cpu.bus.uart, addr, 8))
  /\ old' = cpu
  /\ UNCHANGED << at, inst, raised, steps, fetch_pc >>

\* Uart::is_interrupting by the CPU thread, at any point of the reader.
IsInterrupting ==
  /\ at = "uart"
  /\ last' = UartCalled("Uart::is_interrupting", "None",
                        Uart_is_interrupting(cpu.bus.uart))
  /\ cpu' = [cpu EXCEPT !.bus.uart = Uart_after_is_interrupting(@)]
  /\ old' = cpu
  /\ UNCHANGED << at, inst, raised, steps, fetch_pc, reader >>

UartInit ==
  /\ cpu = Cpu_new(<< >>)
  /\ at = "uart"
  /\ inst = U(0)
  /\ raised = "None"
  /\ steps = 0
  /\ old = cpu
  /\ last = Step("boot", "None", "none")
  /\ fetch_pc = cpu.pc
  /\ \E input \in Inputs, open \in BOOLEAN : reader = Reader(input, open)

\* Uart::store(addr, 8, value) by the CPU thread: of 0x41 to THR (the byte
\* is printed) and of 0 to offset 5, the line status register.
UartStore ==
  /\ at = "uart"
  /\ ~ReaderLocked
  /\ reader.stores < MaxStores
  /\ \E st \in {<< UART_THR, U(65) >>, << UART_LSR, U(0) >>} :
       /\ cpu' = [cpu EXCEPT !.bus.uart = Uart_store(@, st[1], 8, st[2]).value]
       /\ last' = UartCalled("Uart::store", [addr |-> st[1], value |-> st[2]],
                             Ok("None"))
  /\ reader' = [reader EXCEPT !.stores = @ + 1]
  /\ old' = cpu
  /\ UNCHANGED << at, inst, raised, steps, fetch_pc >>

\* The reader thread with a guest that loads and polls.
UartLoadNext ==
  \/ ReaderRead \/ ReaderLock \/ ReaderCheck \/ ReaderWake \/ ReaderStore
  \/ ReaderFlag \/ ReaderSetRx \/ UartLoad \/ IsInterrupting

\* The reader thread with a guest that loads, stores and polls.
UartNext == UartLoadNext \/ UartStore

UartSpec == UartInit /\ [][UartNext]_vars

\* Fair scheduling of the reader thread: a statement it can execute is
\* executed, a thread that was notified returns from wait, and a lock()
\* succeeds (the CPU thread holds the mutex only within a call). Nothing is
\* assumed of stdin, of the guest or of spurious wake-ups.
ReaderFair ==
  /\ WF_vars(ReaderLock) /\ WF_vars(ReaderCheck)
  /\ WF_vars(reader.notified /\ ReaderWake)
  /\ WF_vars(ReaderStore) /\ WF_vars(ReaderFlag) /\ WF_vars(ReaderSetRx)

UartLiveSpec == UartInit /\ [][UartLoadNext]_vars /\ ReaderFair

\* ------------------------------------------------------------------------
\* Properties. `old` is the hart before the last step of the loop, `last`
\* names that step, `fetch_pc` is the pc the current instruction was
\* fetched at.
\* ------------------------------------------------------------------------

\* decode_execute has returned (Ok or Err) from the instruction i.
Executed(i) == last.op = "decode_execute" /\ inst = i /\ at # "panicked"

\* Exception::get_trap has delivered the exception e.
Delivered(e) == last.op = "Exception::get_trap" /\ last.arg = e

\* C1: after decode_execute returns, whatever the instruction (a write to
\* rd = 0 included), regs[0] is 0.
C1_X0ZeroOnReturn ==
  (last.op = "decode_execute" /\ at # "panicked") => cpu.regs[0] = U(0)

\* C2: MRET, for every mstatus: pc = mepc; the mode is the one MPP encodes
\* (00 User, 01 Supervisor, 11 Machine); MIE gets the old MPIE; MPIE is 1;
\* MPP is 00.
C2_MretRestores ==
  Executed(MRET) =>
    /\ cpu.pc = Csr(old, MEPC)
    /\ Field(Csr(old, MSTATUS), 11, 2) = 0 => cpu.mode = User
    /\ Field(Csr(old, MSTATUS), 11, 2) = 1 => cpu.mode = Supervisor
    /\ Field(Csr(old, MSTATUS), 11, 2) = 3 => cpu.mode = Machine
    /\ (3 \in Csr(cpu, MSTATUS)) = (7 \in Csr(old, MSTATUS))
    /\ 7 \in Csr(cpu, MSTATUS)
    /\ Field(Csr(cpu, MSTATUS), 11, 2) = 0

\* C3: SRET, for every sstatus: pc = sepc; the mode is Supervisor if the old
\* SPP is 1 and User otherwise; SIE gets the old SPIE; SPIE is 1; SPP is 0;
\* every other bit of sstatus is unchanged.
C3_SretRestores ==
  Executed(SRET) =>
    /\ cpu.pc = Csr(old, SEPC)
    /\ cpu.mode = IF 8 \in Csr(old, SSTATUS) THEN Supervisor ELSE User
    /\ (1 \in Csr(cpu, SSTATUS)) = (5 \in Csr(old, SSTATUS))
    /\ 5 \in Csr(cpu, SSTATUS)
    /\ 8 \notin Csr(cpu, SSTATUS)
    /\ Csr(cpu, SSTATUS) \ {1, 5, 8} = Csr(old, SSTATUS) \ {1, 5, 8}

\* An SRET from Supervisor with SPP = 1, SPIE = 0, SIE = 1 and an unrelated
\* bit (18) set has returned to Supervisor with SIE = 0 and SPIE = 1.
C3_Witness ==
  /\ Executed(SRET)
  /\ old.mode = Supervisor
  /\ Csr(old, SSTATUS) = {1, 8, 18}
  /\ Csr(cpu, SSTATUS) = {5, 18}
  /\ cpu.mode = Supervisor
  /\ cpu.pc = ReturnS

\* C4: an ECALL in Machine mode at P with medeleg = 0 raises
\* EnvironmentCallFromMMode, and after delivery the mode is Machine,
\* mepc = P, mcause = 11 and pc = mtvec & ~1.
C4_EcallFromMachine ==
  (Delivered("EnvironmentCallFromMMode") /\ Csr(old, MEDELEG) = {}) =>
    /\ cpu.mode = Machine
    /\ Csr(cpu, MEPC) = fetch_pc
    /\ Csr(cpu, MCAUSE) = U(11)
    /\ cpu.pc = And(Csr(old, MTVEC), Not(U(1)))

\* An exception has been delivered by Exception::get_trap.
ExceptionDelivered == last.op = "Exception::get_trap"

\* The cause of the exception delivered, as the trap unit numbers it.
DeliveredCause == ExceptionCode(last.arg)

\* The trap was delivered in Supervisor / in Machine mode: the mode, the
\* vector and the cause register of that mode.
InSupervisor ==
  /\ cpu.mode = Supervisor
  /\ cpu.pc = And(Csr(old, STVEC), Not(U(1)))
  /\ Csr(cpu, SCAUSE) = U(DeliveredCause)

InMachine ==
  /\ cpu.mode = Machine
  /\ cpu.pc = And(Csr(old, MTVEC), Not(U(1)))
  /\ Csr(cpu, MCAUSE) = U(DeliveredCause)

\* C5: an exception with cause c is delivered in Supervisor mode if and
\* only if the mode at the exception is User or Supervisor and bit c of
\* medeleg is set; in every other case (any exception raised in Machine
\* mode among them) it is delivered in Machine mode.
C5_Delegation ==
  ExceptionDelivered =>
    IF old.mode \in {User, Supervisor} /\ DeliveredCause \in Csr(old, MEDELEG)
    THEN InSupervisor /\ ~InMachine
    ELSE InMachine /\ ~InSupervisor

\* A breakpoint raised in User mode with bit 3 of medeleg set has been
\* delivered in Supervisor mode.
C5_Witness ==
  /\ ExceptionDelivered
  /\ last.arg = "Breakpoint"
  /\ old.mode = User
  /\ 3 \in Csr(old, MEDELEG)
  /\ InSupervisor

\* C6: an exception delivered in Supervisor mode leaves mode = Supervisor,
\* pc = stvec & ~1, sepc = (address of the faulting instruction) & ~1,
\* scause = cause, stval = 0, SPIE = old SIE, SIE = 0, and SPP = 0 if the
\* previous mode was User, 1 otherwise.
C6_SupervisorDelivery ==
  (ExceptionDelivered /\ cpu.mode = Supervisor) =>
    /\ cpu.pc = And(Csr(old, STVEC), Not(U(1)))
    /\ Csr(cpu, SEPC) = And(fetch_pc, Not(U(1)))
    /\ Csr(cpu, SCAUSE) = U(DeliveredCause)
    /\ Csr(cpu, STVAL) = U(0)
    /\ (5 \in Csr(cpu, SSTATUS)) = (1 \in Csr(old, SSTATUS))
    /\ 1 \notin Csr(cpu, SSTATUS)
    /\ (8 \in Csr(cpu, SSTATUS)) = (old.mode # User)

\* MPP as the specification encodes a mode: 00 User, 01 Supervisor, 11 Machine.
MppOf(mode) == IF mode = User THEN 0 ELSE IF mode = Supervisor THEN 1 ELSE 3

\* A trap (exception or interrupt) has been delivered in Machine mode.
TrapInMachine ==
  /\ last.op \in {"Exception::get_trap", "Interrupt::get_trap"}
  /\ at # "panicked"
  /\ cpu.mode = Machine

\* C7: a trap delivered in Machine mode leaves MPIE = old MIE, MIE = 0 and
\* MPP encoding the mode before the trap (00 User, 01 Supervisor, 11
\* Machine).
C7_MachineDelivery ==
  TrapInMachine =>
    /\ (7 \in Csr(cpu, MSTATUS)) = (3 \in Csr(old, MSTATUS))
    /\ 3 \notin Csr(cpu, MSTATUS)
    /\ Field(Csr(cpu, MSTATUS), 11, 2) = MppOf(old.mode)

\* The epc of the mode the exception was delivered in.
RecordedEpc == IF cpu.mode = Supervisor THEN Csr(cpu, SEPC) ELSE Csr(cpu, MEPC)

\* C8: the epc recorded by exception delivery is the address P of the
\* instruction that faulted, whether the fetch at P failed (pc still P) or
\* the instruction fetched at P failed in execute (pc already P + 4).
C8_EpcIsFaultingInstruction ==
  ExceptionDelivered => RecordedEpc = fetch_pc

\* check_pending_interrupt has returned.
Polled == last.op = "check_pending_interrupt"

\* The gate of the poll, on the hart before it: Machine with mstatus.MIE = 0
\* or Supervisor with sstatus.SIE = 0.
Disabled ==
  \/ old.mode = Machine /\ 3 \notin Csr(old, MSTATUS)
  \/ old.mode = Supervisor /\ 1 \notin Csr(old, SSTATUS)

\* mip as the selection reads it: the mip before the poll, with SEIP set if
\* a device flag was up.
PolledMip ==
  IF old.bus.uart.interrupt \/ old.bus.virtio.interrupt
  THEN Csr(old, MIP) \cup {9}
  ELSE Csr(old, MIP)

\* The six interrupts in the order MEI, MSI, MTI, SEI, SSI, STI, each with
\* its mip bit.
Priority ==
  << << 11, "MachineExternalInterrupt" >>, << 3, "MachineSoftwareInterrupt" >>,
     << 7, "MachineTimerInterrupt" >>, << 9, "SupervisorExternalInterrupt" >>,
     << 1, "SupervisorSoftwareInterrupt" >>, << 5, "SupervisorTimerInterrupt" >> >>

\* The positions of the order whose bit is set in mie & mip.
Enabled == {k \in 1 .. 6 : Priority[k][1] \in (Csr(old, MIE) \cap PolledMip)}

First == CHOOSE k \in Enabled : \A j \in Enabled : k <= j

\* C9: a poll that is not gated takes the first of MEI, MSI, MTI, SEI, SSI,
\* STI whose bit is set in mie & mip, clears exactly that bit of mip and
\* leaves every other mip bit; with none of the six set it returns no
\* interrupt and leaves mip.
C9_FirstPendingTaken ==
  (Polled /\ ~Disabled) =>
    IF Enabled = {}
    THEN raised = "None" /\ Csr(cpu, MIP) = PolledMip
    ELSE /\ raised = Priority[First][2]
         /\ Csr(cpu, MIP) = PolledMip \ {Priority[First][1]}

\* With MSIP and MTIP pending and enabled, MSI has been taken: MSIP is
\* cleared and MTIP is still pending.
C9_Witness ==
  /\ Polled
  /\ {3, 7} \subseteq (Csr(old, MIE) \cap Csr(old, MIP))
  /\ 11 \notin Csr(old, MIP)
  /\ raised = "MachineSoftwareInterrupt"
  /\ 3 \notin Csr(cpu, MIP)
  /\ 7 \in Csr(cpu, MIP)

\* C10: in Machine mode with mstatus.MIE = 0, or in Supervisor mode with
\* sstatus.SIE = 0, the poll returns no interrupt and changes nothing: mip,
\* the PLIC's sclaim, the UART flag and the VirtIO flag keep their values.
C10_DisabledPollChangesNothing ==
  (Polled /\ Disabled) =>
    /\ raised = "None"
    /\ Csr(cpu, MIP) = Csr(old, MIP)
    /\ Sclaim(cpu.bus) = Sclaim(old.bus)
    /\ cpu.bus.uart.interrupt = old.bus.uart.interrupt
    /\ cpu.bus.virtio.interrupt = old.bus.virtio.interrupt
    /\ cpu = old

\* A poll in Supervisor mode with SIE = 0, the UART flag up and a timer
\* interrupt pending and enabled has returned none and left both.
C10_Witness ==
  /\ Polled
  /\ old.mode = Supervisor
  /\ 1 \notin Csr(old, SSTATUS)
  /\ old.bus.uart.interrupt
  /\ 5 \in (Csr(old, MIE) \cap Csr(old, MIP))
  /\ raised = "None"
  /\ cpu.bus.uart.interrupt
  /\ 5 \in Csr(cpu, MIP)

\* C11: check_pending_interrupt called in User mode returns no interrupt,
\* whatever mie, mip and the device flags hold.
C11_UserMasksAll == (Polled /\ old.mode = User) => raised = "None"

\* Interrupts are enabled for the mode of the poll: Machine with
\* mstatus.MIE = 1 or Supervisor with sstatus.SIE = 1.
PollOpen ==
  \/ old.mode = Machine /\ 3 \in Csr(old, MSTATUS)
  \/ old.mode = Supervisor /\ 1 \in Csr(old, SSTATUS)

\* The mip bit of the interrupt the poll returned, none for "None".
TakenBits == {Priority[k][1] : k \in {j \in 1 .. 6 : Priority[j][2] = raised}}

\* mip after the poll is mip before it with the bits `set` written, but for
\* the bit of the interrupt taken.
MipWritten(set) == Csr(cpu, MIP) \cup TakenBits = (Csr(old, MIP) \cup set) \cup TakenBits

\* C12: one enabled poll consumes at most one device flag, the UART's
\* first: with the UART flag up, 10 is written to sclaim, SEIP is set and the
\* VirtIO flag and disk are left alone; otherwise, with the VirtIO flag up,
\* disk_access runs (finding the sclaim of before the poll) and then 1 is
\* written to sclaim and SEIP is set; with neither flag up, sclaim and SEIP
\* are not written.
C12_OneDevicePerPoll ==
  (Polled /\ PollOpen) =>
    IF old.bus.uart.interrupt
    THEN /\ Sclaim(cpu.bus) = U(10)
         /\ MipWritten({9})
         /\ ~cpu.bus.uart.interrupt
         /\ cpu.bus.virtio = old.bus.virtio
    ELSE IF old.bus.virtio.interrupt
    THEN /\ Sclaim(cpu.bus) = U(1)
         /\ MipWritten({9})
         /\ ~cpu.bus.virtio.interrupt
         /\ cpu.bus.virtio.accesses = old.bus.virtio.accesses + 1
         /\ cpu.bus.virtio.claim_seen = Sclaim(old.bus)
    ELSE /\ Sclaim(cpu.bus) = Sclaim(old.bus)
         /\ MipWritten({})
         /\ cpu.bus = old.bus

\* A poll has served the VirtIO flag that an earlier poll, serving the UART,
\* had left up: disk_access found sclaim = 10, and sclaim is now 1.
C12_Witness ==
  /\ Polled /\ PollOpen
  /\ ~old.bus.uart.interrupt
  /\ old.bus.virtio.interrupt
  /\ Sclaim(old.bus) = U(10)
  /\ cpu.bus.virtio.claim_seen = U(10)
  /\ cpu.bus.virtio.accesses = 1
  /\ Sclaim(cpu.bus) = U(1)
  /\ 9 \in Csr(cpu, MIP)

\* sstatus shows the SIE, SPIE and SPP of mstatus, and sip the supervisor
\* bits (SSIP, STIP, SEIP) of mip.
Aliased(c) ==
  /\ load_csr(c, SSTATUS) \cap {1, 5, 8} = load_csr(c, MSTATUS) \cap {1, 5, 8}
  /\ load_csr(c, SIP) = load_csr(c, MIP) \cap {1, 5, 9}

\* C17: sstatus and sip are filtered views of mstatus and mip in every
\* reachable state: a step of the hart (an instruction, a trap entry, a
\* poll) that starts with the views in agreement ends with them in
\* agreement, so that a change of sstatus.SIE by a Supervisor trap entry or
\* by SRET is the same change of bit 1 of mstatus.
C17_SupervisorViews == Aliased(old) => Aliased(cpu)

\* The two paging fields are what satp says.
PagingFollows(c) ==
  /\ c.enable_paging = (Val({b - 60 : b \in Csr(c, SATP) \cap (60 .. 63)}) = 8)
  /\ c.page_table = {b + 12 : b \in Csr(c, SATP) \cap (0 .. 43)}

C18_WitnessOn ==
  /\ Executed(CSRRW(0, SATP, 1))
  /\ ~old.enable_paging
  /\ cpu.enable_paging
  /\ cpu.page_table = U(0)

\* The address lies in none of the five windows.
Unmapped(addr) ==
  /\ ~InWindow(addr, CLINT_BASE, CLINT_END)
  /\ ~InWindow(addr, PLIC_BASE, PLIC_END)
  /\ ~InWindow(addr, UART_BASE, UART_END)
  /\ ~InWindow(addr, VIRTIO_BASE, VIRTIO_END)
  /\ ~InWindow(addr, MEMORY_BASE, MEMORY_END)

\* C13: a bus load at an address in none of the five windows (at or past
\* the end of the RAM included) returns LoadAccessFault; a bus store at such
\* an address returns StoreAMOAccessFault and changes nothing.
C13_UnmappedFaults ==
  /\ (last.op = "Bus::load" /\ Unmapped(last.arg.addr)) =>
       last.result = Err("LoadAccessFault")
  /\ (last.op = "Bus::store" /\ Unmapped(last.arg.addr)) =>
       last.result = Err("StoreAMOAccessFault") /\ cpu = old

\* The access of `size` bits at addr lies inside the RAM.
InRam(addr, size) ==
  /\ Ule(MEMORY_BASE, addr)
  /\ Ule(wrapping_add(addr, U(size \div 8)), MEMORY_END)
  /\ Ult(addr, MEMORY_END)

\* C14: for a width k of 8, 16, 32 or 64 bits and an address a, aligned or
\* not, with the whole access inside the RAM, store(a, k, v) followed by
\* load(a, k) returns the low k bits of v.
C14_RamRoundTrip ==
  (/\ last.op = "Bus::load"
   /\ last.before.op = "Bus::store"
   /\ last.before.arg.addr = last.arg.addr
   /\ last.before.arg.size = last.arg.size
   /\ last.arg.size \in {8, 16, 32, 64}
   /\ InRam(last.arg.addr, last.arg.size)) =>
    last.result = Ok(last.before.arg.value \cap (0 .. (last.arg.size - 1)))

\* 64 bits stored at the odd address MEMORY_BASE + 1, over words that were
\* not zero, have been loaded back.
C14_Witness ==
  /\ last.op = "Bus::load"
  /\ last.before.op = "Bus::store"
  /\ last.arg = [addr |-> Or(MEMORY_BASE, U(1)), size |-> 64]
  /\ last.before.arg.addr = last.arg.addr
  /\ last.before.arg.size = 64
  /\ 63 \in last.before.arg.value /\ 0 \in last.before.arg.value
  /\ Get(old.bus.memory, 0, 0) = 255
  /\ last.result = Ok(last.before.arg.value)

\* C15: a RAM access with a size other than 8, 16, 32, 64 returns
\* LoadAddressMisaligned for a load and StoreAMOAddressMisaligned for a
\* store, and leaves the memory as it was.
C15_BadSize ==
  /\ (/\ last.op = "Bus::load"
      /\ InRam(last.arg.addr, 8)
      /\ last.arg.size \notin {8, 16, 32, 64}) =>
       last.result = Err("LoadAddressMisaligned") /\ cpu = old
  /\ (/\ last.op = "Bus::store"
      /\ InRam(last.arg.addr, 8)
      /\ last.arg.size \notin {8, 16, 32, 64}) =>
       last.result = Err("StoreAMOAddressMisaligned") /\ cpu = old

\* The CSRs but mie are as they were before the call, and so is the rest of
\* the hart.
OnlyMieWritten ==
  /\ \A a \in (DOMAIN cpu.csr \cup DOMAIN old.csr) \ {MIE} : Csr(cpu, a) = Csr(old, a)
  /\ [cpu EXCEPT !.csr = old.csr] = old

\* C16: a read of sie returns mie & mideleg; a write of v to sie sets mie
\* to (mie & ~mideleg) | (v & mideleg), so no mie bit outside mideleg
\* changes, and changes no other CSR; a read of sie right after the write
\* returns v & mideleg.
C16_SieIsMaskedMie ==
  /\ (last.op = "load_csr" /\ last.arg.address = SIE) =>
       last.result = Ok(Csr(old, MIE) \cap Csr(old, MIDELEG))
  /\ (last.op = "store_csr" /\ last.arg.address = SIE) =>
       /\ Csr(cpu, MIE) = (Csr(old, MIE) \ Csr(old, MIDELEG))
                            \cup (last.arg.value \cap Csr(old, MIDELEG))
       /\ Csr(cpu, MIE) \ Csr(old, MIDELEG) = Csr(old, MIE) \ Csr(old, MIDELEG)
       /\ OnlyMieWritten
  /\ (/\ last.op = "load_csr" /\ last.arg.address = SIE
      /\ last.before.op = "store_csr" /\ last.before.arg.address = SIE) =>
       last.result = Ok(last.before.arg.value \cap Csr(cpu, MIDELEG))

\* With mideleg = {1, 5, 9} and mie = {3, 7, 11}, all ones were written to
\* sie: mie is {1, 3, 5, 7, 9, 11} and sie reads {1, 5, 9}.
C16_Witness ==
  /\ last.op = "load_csr" /\ last.arg.address = SIE
  /\ last.before.op = "store_csr" /\ last.before.arg.address = SIE
  /\ last.before.arg.value = BitIdx
  /\ Csr(cpu, MIDELEG) = {1, 5, 9}
  /\ Csr(cpu, MIE) = {1, 3, 5, 7, 9, 11}
  /\ last.result = Ok({1, 5, 9})

\* C19: with paging disabled, or in Machine mode (paging enabled or not),
\* translate returns the address itself for every access type, and no page
\* fault.
C19_IdentityInMachine ==
  (last.op = "translate" /\ (~old.enable_paging \/ old.mode = Machine)) =>
    last.result = Ok(last.arg.addr)

\* The PTE in the slot vpn of the table at `table`, read from the RAM.
PteAt(table, vpn) ==
  LoadBytes(old.bus.memory, Val(Index(table)) + 8 * vpn, 8)

\* vpn[i] of the address translated, as a number.
VpnOf(i) == Val({b - (12 + 9 * i) : b \in last.arg.addr \cap ((12 + 9 * i) .. (20 + 9 * i))})

\* The table a pointer PTE names: its ppn times the page size.
TableOf(pte) == {b + 2 : b \in pte \cap (10 .. 53)}

IsLeaf(pte) == 1 \in pte \/ 3 \in pte

\* The PTEs the walk meets at the levels 2, 1, 0.
WalkPte2 == PteAt(old.page_table, VpnOf(2))
WalkPte1 == PteAt(TableOf(WalkPte2), VpnOf(1))
WalkPte0 == PteAt(TableOf(WalkPte1), VpnOf(0))

\* The level of the leaf a successful walk ends in, and the leaf.
LeafLevel == IF IsLeaf(WalkPte2) THEN 2 ELSE IF IsLeaf(WalkPte1) THEN 1 ELSE 0
LeafPte == IF LeafLevel = 2 THEN WalkPte2 ELSE IF LeafLevel = 1 THEN WalkPte1 ELSE WalkPte0

\* The leaf's ppn and the address's page number, from bit 0.
LeafPpn == {b - 10 : b \in LeafPte \cap (10 .. 53)}
VirtualPage == {b - 12 : b \in last.arg.addr \cap (12 .. 38)}

\* The page number of the result: the leaf's ppn, its low 9 i bits replaced
\* by those of the address's page number.
ResultPage ==
  (LeafPpn \ (0 .. (9 * LeafLevel - 1))) \cup (VirtualPage \cap (0 .. (9 * LeafLevel - 1)))

\* C20: a successful walk that ends in a leaf at level i returns the low 12
\* bits of the virtual address under the page number of the leaf, in which
\* for i = 1 ppn[0] is replaced by vpn[0] and for i = 2 ppn[1]:ppn[0] by
\* vpn[1]:vpn[0].
C20_LeafAddress ==
  (last.op = "translate" /\ old.enable_paging /\ last.result.tag = "Ok") =>
    last.result.value = {b + 12 : b \in ResultPage} \cup (last.arg.addr \cap (0 .. 11))

\* A walk has ended in a megapage leaf (level 1) whose ppn[0] is not the
\* vpn[0] of the address: the result carries vpn[0] = 1, the offset 0xabc
\* and the top bit of the leaf's ppn[2].
C20_Witness ==
  /\ last.op = "translate" /\ old.enable_paging /\ last.result.tag = "Ok"
  /\ LeafLevel = 1
  /\ LeafPpn \cap (0 .. 8) # {}
  /\ LeafPte = PteLeafR
  /\ VpnOf(0) = 1
  /\ last.result.value \cap (12 .. 20) = {12}
  /\ last.result.value \cap (0 .. 11) = U(2748)
  /\ 55 \in last.result.value

\* C21: no instruction is fetched from an address that is not a multiple
\* of 4: a fetch that starts with such a pc (left by JALR, JAL, SRET, MRET
\* or a trap entry) raises InstructionAddressMisaligned.
C21_FetchAligned ==
  (last.op = "fetch" /\ fetch_pc \cap {0, 1} # {}) =>
    raised = "InstructionAddressMisaligned"

\* The five exceptions that end the loop.
FatalFive ==
  {"InstructionAddressMisaligned", "InstructionAccessFault", "LoadAccessFault",
   "StoreAMOAddressMisaligned", "StoreAMOAccessFault"}

\* C23: is_fatal is true for exactly the five exceptions
\* InstructionAddressMisaligned, InstructionAccessFault, LoadAccessFault,
\* StoreAMOAddressMisaligned, StoreAMOAccessFault; the delivery of one of
\* them ends the loop, and after the delivery of any other the loop goes
\* on at the trap vector.
C23_FatalExceptions ==
  /\ \A i \in DOMAIN ExceptionVariants :
       is_fatal(ExceptionVariants[i]) = (ExceptionVariants[i] \in FatalFive)
  /\ ExceptionDelivered =>
       /\ (at = "halted") = (last.arg \in FatalFive)
       /\ last.arg \notin FatalFive =>
            /\ at = "poll"
            /\ cpu.pc = And(Csr(old, IF cpu.mode = Supervisor THEN STVEC ELSE MTVEC),
                            Not(U(1)))

\* An illegal instruction has been delivered and the loop has fetched at
\* the trap vector.
C23_Witness ==
  /\ last.op = "fetch"
  /\ old.mode = Machine
  /\ Csr(old, MCAUSE) = U(2)
  /\ fetch_pc = HandlerM
  /\ steps = 1

\* Interrupt::get_trap has been called for the interrupt taken.
InterruptDelivered == last.op = "Interrupt::get_trap"

\* The place in the order of the interrupt delivered; its code is the
\* number of its mip bit: 1, 3, 5, 7, 9 or 11.
DeliveredCode == Priority[CHOOSE k \in 1 .. 6 : Priority[k][2] = last.arg][1]

\* The tvec of the mode the interrupt was delivered in.
DeliveringTvec == Csr(old, IF cpu.mode = Supervisor THEN STVEC ELSE MTVEC)

\* C29: an interrupt with code c is recorded with the cause c | 1 << 63, and
\* the handler is at (tvec & ~1) + 4 c when the low bit of the delivering
\* mode's tvec is 1 and at tvec & ~1 when it is 0, computed without an
\* overflow of unsigned 64-bit arithmetic in 4 * cause.
C29_VectoredHandler ==
  InterruptDelivered =>
    /\ at # "panicked"
    /\ Csr(cpu, IF cpu.mode = Supervisor THEN SCAUSE ELSE MCAUSE)
         = U(DeliveredCode) \cup {63}
    /\ cpu.pc = IF 0 \in DeliveringTvec
                THEN wrapping_add(DeliveringTvec \ {0}, U(4 * DeliveredCode))
                ELSE DeliveringTvec \ {0}

\* C30: an interrupt with code c taken in User or Supervisor mode is
\* delivered in Supervisor mode if and only if bit c of mideleg is set,
\* whatever medeleg holds; one taken in Machine mode is delivered in
\* Machine mode.
C30_InterruptDelegation ==
  (InterruptDelivered /\ at # "panicked") =>
    cpu.mode = IF old.mode \in {User, Supervisor} /\ DeliveredCode \in Csr(old, MIDELEG)
               THEN Supervisor ELSE Machine

\* The PTE stops the walk with a page fault: V = 0, or R = 0 and W = 1.
Invalid(pte) == 0 \notin pte \/ (1 \notin pte /\ 2 \in pte)

\* Some PTE read on the way is invalid, or the PTE of level 0 is a valid
\* pointer.
WalkFaults ==
  \/ Invalid(WalkPte2)
  \/ /\ ~IsLeaf(WalkPte2)
     /\ \/ Invalid(WalkPte1)
        \/ /\ ~IsLeaf(WalkPte1)
           /\ (Invalid(WalkPte0) \/ ~IsLeaf(WalkPte0))

\* The page fault of the access type of the call.
FaultOfAccess ==
  IF last.arg.access_type = "Instruction" THEN "InstructionPageFault"
  ELSE IF last.arg.access_type = "Load" THEN "LoadPageFault"
  ELSE "StoreAMOPageFault"

\* C28: with paging enabled a walk ends after the PTEs of at most the three
\* levels, with the page fault of the access type exactly when a PTE read
\* on the way has V = 0 or (R = 0 and W = 1) or the level-0 PTE is a valid
\* non-leaf, and with an address otherwise; a faulting walk changes
\* nothing.
C28_WalkFaults ==
  (last.op = "translate" /\ old.enable_paging) =>
    /\ WalkFaults => last.result = Err(FaultOfAccess) /\ cpu = old
    /\ ~WalkFaults => last.result.tag = "Ok"

\* A store walked through two pointers to a valid pointer at level 0, which
\* names the root table again: StoreAMOPageFault, no fourth PTE read.
C28_Witness ==
  /\ last.op = "translate" /\ old.enable_paging
  /\ last.arg.access_type = "Store"
  /\ WalkPte2 = PtePointer(2)
  /\ WalkPte1 = PtePointer(3)
  /\ WalkPte0 = PtePointer(1)
  /\ PteAt(TableAt(1), 1) = PteLeafX
  /\ last.result = Err("StoreAMOPageFault")

\* decode_execute has been called directly on a word of the kind k.
Decoded(k) ==
  last.op = "decode_execute" /\ last.stage = "call" /\ last.arg.kind = k

\* C22: every 32-bit word that encodes no supported instruction (unknown
\* opcode, or unknown funct3/funct6/funct7 under a known opcode, such as
\* opcode 0x13 funct3 5 with a funct6 other than 0x00/0x10 and opcode 0x23
\* with funct3 > 3) makes decode_execute return IllegalInstruction.
C22_UnsupportedIsIllegal ==
  Decoded("unsupported") => last.result = Err("IllegalInstruction")

\* The signed number held by register r before the call.
SignedReg(r) == CHOOSE n \in RegValues : SignedU(n) = old.regs[r]

\* A rank with the order of the register values read as unsigned words.
UnsignedRank(n) == IF n < 0 THEN n + 100 ELSE n

\* The branch condition on the values rs1 and rs2 held before the call.
BranchTaken ==
  LET x == SignedReg(last.arg.rs1)
      y == SignedReg(last.arg.rs2)
      f3 == last.arg.funct3
  IN  IF f3 = 0 THEN x = y
      ELSE IF f3 = 1 THEN x # y
      ELSE IF f3 = 4 THEN x < y
      ELSE IF f3 = 5 THEN x >= y
      ELSE IF f3 = 6 THEN UnsignedRank(x) < UnsignedRank(y)
      ELSE UnsignedRank(x) >= UnsignedRank(y)

\* P + imm for the instruction at P = pc - 4.
RelativeTarget == wrapping_add(wrapping_sub(old.pc, U(4)), SignedU(last.arg.imm))

\* (rs1 + imm) & ~1 on the value rs1 held before the call.
JalrTarget ==
  LET t == SignedReg(last.arg.rs1) + last.arg.imm
  IN  SignedU(t - (t % 2))

\* C27: for an instruction at P (pc is P + 4 during execute): a taken branch
\* sets pc = P + imm, a branch not taken leaves pc = P + 4; JAL sets
\* rd = P + 4 and pc = P + imm; JALR sets rd = P + 4 and
\* pc = (rs1 + imm) & ~1 with the value rs1 held before the instruction,
\* also when rd and rs1 are the same register.
C27_BranchAndJumpTargets ==
  /\ Decoded("branch") =>
       /\ last.result.tag = "Ok"
       /\ cpu.pc = IF BranchTaken THEN RelativeTarget ELSE old.pc
  /\ Decoded("jal") =>
       /\ last.result.tag = "Ok"
       /\ cpu.regs[last.arg.rd] = old.pc
       /\ cpu.pc = RelativeTarget
  /\ Decoded("jalr") =>
       /\ last.result.tag = "Ok"
       /\ cpu.regs[last.arg.rd] = old.pc
       /\ cpu.pc = JalrTarget

\* a JALR with rd = rs1 = x1 = 5 and imm = -3 at MEMORY_BASE + 0x100: pc is
\* 2 and x1 is the return address
C27_Witness ==
  /\ Decoded("jalr")
  /\ last.arg.rd = 1 /\ last.arg.rs1 = 1 /\ last.arg.imm = -3
  /\ old.regs[1] = U(5)
  /\ cpu.pc = U(2)
  /\ cpu.regs[1] = Or(MEMORY_BASE, U(260))

\* s is a prefix of t.
IsPrefix(s, t) == Len(s) <= Len(t) /\ \A i \in 1 .. Len(s) : s[i] = t[i]

\* C24: under every interleaving of the reader thread and the CPU thread,
\* the reader stores a byte into RHR only when LSR.RX = 0, and a guest that
\* loads RHR only when LSR.RX = 1 reads the stdin bytes in order, none lost
\* and none duplicated.
C24_ReaderHandOff ==
  /\ reader.pc = "store" => ~LsrRx(cpu.bus.uart)
  /\ reader.polite => IsPrefix(reader.got, reader.input)

\* The last call of the CPU thread was is_interrupting and it returned true.
PolledTrue == last.op = "Uart::is_interrupting" /\ last.result = TRUE

\* C25: whenever is_interrupting() returns true, a UART load made by the CPU
\* after it (the mutex is free) sees LSR.RX = 1 and an RHR byte that the
\* guest has not read before.
C25_FlagImpliesByte ==
  (PolledTrue /\ ~ReaderLocked) => (LsrRx(cpu.bus.uart) /\ reader.unread)

\* The last call of the CPU thread was an 8-bit load of RHR.
RhrLoaded == last.op = "Uart::load" /\ last.arg.addr = UART_RHR

\* C26: after the reader has delivered the byte b, an 8-bit load of RHR
\* returns b and clears LSR.RX; a second load of RHR with no byte delivered
\* in between returns 0.
C26_RhrReadOnce ==
  RhrLoaded =>
    /\ last.arg.before.unread =>
         /\ last.result.value =
              U(last.arg.before.delivered[Len(last.arg.before.delivered)])
         /\ ~last.result.rx
    /\ (~last.arg.before.unread /\ last.arg.before.reads > 0) =>
         last.result.value = U(0)

\* The source operand of the CSR instruction called, from the hart before
\* it: x[rs1] (x0 reads 0) for CSRRW/CSRRS/CSRRC, uimm for the others.
OldSource ==
  IF last.arg.funct3 \in {1, 2, 3}
  THEN IF last.arg.rs1 = 0 THEN U(0) ELSE old.regs[last.arg.rs1]
  ELSE U(last.arg.rs1)

\* The value the instruction is to write to the CSR.
NewCsrValue ==
  IF last.arg.funct3 \in {1, 5} THEN OldSource
  ELSE IF last.arg.funct3 \in {2, 6} THEN Or(load_csr(old, last.arg.imm), OldSource)
  ELSE And(load_csr(old, last.arg.imm), Not(OldSource))

\* C31: a CSR instruction writes to the CSR the value computed from the old
\* CSR value and the source operand as it was before the instruction
\* (CSRRW: rs1; CSRRS: old | rs1; CSRRC: old & ~rs1), and rd receives the
\* old CSR value, also when rd = rs1; CSRRS/CSRRC/CSRRSI/CSRRCI with a zero
\* source operand (rs1 = x0 or uimm = 0) leave every CSR, enable_paging and
\* page_table unchanged.
C31_CsrReadModifyWrite ==
  Decoded("csr") =>
    /\ last.result.tag = "Ok"
    /\ cpu.csr = store_csr(old, last.arg.imm, NewCsrValue).csr
    /\ last.arg.imm # SIE => Csr(cpu, last.arg.imm) = NewCsrValue
    /\ last.arg.rd # 0 => cpu.regs[last.arg.rd] = load_csr(old, last.arg.imm)
    /\ (last.arg.funct3 \in {2, 3, 6, 7} /\ last.arg.rs1 = 0) =>
         /\ cpu.csr = old.csr
         /\ cpu.enable_paging = old.enable_paging
         /\ cpu.page_table = old.page_table

\* CSRRC x1, mstatus, x1 with mstatus = 10 and x1 = 3: mstatus becomes 8 and
\* x1 becomes 10
C31_Witness ==
  /\ Decoded("csr")
  /\ last.arg.funct3 = 3 /\ last.arg.rd = 1 /\ last.arg.rs1 = 1
  /\ last.arg.imm = MSTATUS
  /\ old.regs[1] = U(3)
  /\ Csr(old, MSTATUS) = U(10)
  /\ Csr(cpu, MSTATUS) = U(8)
  /\ cpu.regs[1] = U(10)

\* a CSRRS with rs1 = x0 on satp with paging on: nothing changes
C31_WitnessZero ==
  /\ Decoded("csr")
  /\ last.arg.funct3 = 2 /\ last.arg.rs1 = 0 /\ last.arg.imm = SATP
  /\ old.enable_paging /\ cpu.enable_paging
  /\ cpu.regs[5] = SatpOn

\* The sign-extension to 64 bits of the low 32 bits of w.
SignExtended32(w) == (w \cap (0 .. 31)) \cup (IF 31 \in w THEN 32 .. 63 ELSE {})

Op32Names == {"ADDW", "SUBW", "SLLW", "SRLW", "SRAW", "DIVUW", "REMUW"}

\* decode_execute has been called directly on an OP-32 word.
DecodedOp32 ==
  last.op = "decode_execute" /\ last.stage = "call" /\ last.arg.kind \in Op32Names

\* C32: every OP-32 instruction writes to rd a sign-extended 32-bit result;
\* DIVUW and REMUW work on the low 32 bits of rs1 and rs2 and, when the low
\* 32 bits of rs2 are 0, complete without aborting, DIVUW giving all ones
\* and REMUW the sign-extended low 32 bits of the dividend.
C32_Op32SignExtended ==
  DecodedOp32 =>
    /\ last.result.tag = "Ok"
    /\ cpu.regs[5] = SignExtended32(cpu.regs[5])
    /\ (last.arg.kind \in {"DIVUW", "REMUW"} /\ old.regs[2] \cap (0 .. 31) = {}) =>
         cpu.regs[5] = IF last.arg.kind = "DIVUW" THEN BitIdx
                       ELSE SignExtended32(old.regs[1])
    /\ (last.arg.kind \in {"DIVUW", "REMUW"} /\ old.regs[2] \cap (0 .. 31) # {}
          /\ 31 \notin old.regs[1] /\ 31 \notin old.regs[2]) =>
         cpu.regs[5] =
           IF last.arg.kind = "DIVUW"
           THEN U(Val(old.regs[1] \cap (0 .. 30)) \div Val(old.regs[2] \cap (0 .. 30)))
           ELSE U(Val(old.regs[1] \cap (0 .. 30)) % Val(old.regs[2] \cap (0 .. 30)))

\* The reader is blocked in wait, where it went with LSR.RX = 1, and the CPU
\* thread has loaded RHR since: LSR.RX is 0.
ReadWhileBlocked == reader.pc = "waiting" /\ ~LsrRx(cpu.bus.uart)

C34_TxAlwaysEmpty ==
  (Get(cpu.bus.uart.uart, LsrIndex, 0) \div UART_LSR_TX) % 2 = 1

\* C35: the reader stores into RHR, sets LSR.RX and sets the pending flag
\* only when stdin.read delivered a byte: every byte delivered to the guest
\* is a byte read from stdin, and a read that returns zero bytes is
\* followed by no store.
C35_NoByteNoDelivery ==
  /\ Len(reader.delivered) <= Len(reader.input) - Len(reader.stdin)
  /\ reader.pc \in {"store", "flag", "set_rx"} => reader.n = 1

\* The first instruction of the program, at MEMORY_BASE.
FirstInstruction == LoadBytes(cpu.bus.memory, 0, 4)

\* The address of the instruction that follows the first one in program
\* order: MEMORY_BASE + 4 after a NOP, the target MEMORY_BASE + 8 after the
\* jump.
NextAfterFirst ==
  IF FirstInstruction = NOP THEN Or(MEMORY_BASE, U(4)) ELSE Or(MEMORY_BASE, U(8))

\* The second instruction executed was the MRET at HandlerM (the SRET at
\* HandlerS) of a handler entered by an interrupt, taken in the poll after
\* the first instruction; mepc (sepc) is as the delivery left it.
ReturnedFromInterrupt ==
  /\ steps = 1
  /\ FirstInstruction \in {NOP, JAL8(0)}
  /\ \/ Executed(MRET) /\ fetch_pc = HandlerM /\ 63 \in Csr(old, MCAUSE)
     \/ Executed(SRET) /\ fetch_pc = HandlerS /\ 63 \in Csr(old, SCAUSE)

\* C36: an interrupt is transparent to the interrupted program: when an
\* interrupt is taken in the poll after the instruction at P completed and
\* the handler returns with MRET or SRET without writing mepc or sepc,
\* execution resumes at the instruction that would have run next (P + 4, or
\* the jump target), not at P again and not past it.
C36_InterruptTransparent ==
  ReturnedFromInterrupt => cpu.pc = NextAfterFirst

\* The hart is in Supervisor mode with sstatus.SIE = 0 or in Machine mode
\* with mstatus.MIE = 0.
TrapsHeld(c) ==
  \/ c.mode = Supervisor /\ 1 \notin Csr(c, SSTATUS)
  \/ c.mode = Machine /\ 3 \notin Csr(c, MSTATUS)

\* A trap, exception or interrupt, has just been delivered.
TrapDelivered == ExceptionDelivered \/ (InterruptDelivered /\ at # "panicked")

\* C37: traps do not nest by accident: the delivery of a trap leaves the
\* hart in Supervisor mode with sstatus.SIE = 0 or in Machine mode with
\* mstatus.MIE = 0, and as long as the hart is in that mode with that bit 0
\* every poll returns no interrupt (and changes nothing).
C37_TrapsDoNotNest ==
  /\ TrapDelivered => TrapsHeld(cpu)
  /\ (Polled /\ TrapsHeld(old)) => (raised = "None" /\ at = "fetch" /\ cpu = old)

\* An ECALL in Supervisor mode was delivered in Supervisor mode; the poll
\* that followed, with the supervisor external interrupt pending and
\* enabled, returned none and changed nothing.
C37_Witness ==
  /\ Polled /\ steps = 1 /\ raised = "None"
  /\ inst = ECALL
  /\ old.mode = Supervisor
  /\ Csr(old, SCAUSE) = U(9)
  /\ 1 \notin Csr(old, SSTATUS)
  /\ 9 \in (Csr(old, MIE) \cap Csr(old, MIP))
  /\ cpu = old

====
